---- MODULE Spec2Model ----
(***************************************************************************)
(* Orchestration core of dynatrace-mcp-enhanced: the request classifier,   *)
(* the cache-first / fallback cascade of ChatHandler, the Redis cache      *)
(* middleware and the OAuth token handling of the Dynatrace API clients.   *)
(*                                                                         *)
(* Text is modelled as sequences of one-character strings, so that         *)
(* toLowerCase, includes, startsWith and substring are computed the way    *)
(* the JavaScript built-ins compute them.                                  *)
(***************************************************************************)
EXTENDS Integers, Sequences, FiniteSets, TLC

VARIABLES
  message,       \* classifier: the message handed to classifyRequest
  requestType,   \* classifier: what classifyRequest returned ("none" before the call)
  backend,       \* ChatHandler.dynatraceMCP: which executeQuery implementation it holds
  platformToken, \* DynatraceAPI.platformToken is set (DT_PLATFORM_TOKEN)
  connected,     \* RedisMiddleware.connected
  now,           \* the clock, in seconds
  store,         \* the Redis keyspace: key -> [value, expiresAt]
  token,         \* accessToken and tokenExpiry of the Dynatrace API client
  req,           \* the last handleMessage call: its message, its result, its backend calls
  calls,         \* SessionManager: the calls in progress, each with its position and locals
  concurrent,    \* SessionManager: calls may overlap (FALSE: one after another)
  workload,      \* SessionManager: the messages addMessage is called with, and how many
  extracted,     \* extractADTContext: what it returned for message ("none" before the call)
  client,        \* RedisMiddleware.client: "null" until connect() creates it
  rcall,         \* RedisMiddleware: the last call of one of its methods, and what it gave
  route          \* POST /chat: where the request in progress stands

classifyVars == <<message, requestType>>
chatVars == <<backend, platformToken, connected, now, store, token, req>>
sessionVars == <<calls, concurrent, workload, extracted>>
serviceVars == <<client, rcall, route>>
vars == <<message, requestType, backend, platformToken, connected, now, store, token, req,
          calls, concurrent, workload, extracted, client, rcall, route>>

(***************************************************************************)
(* Bounds of the model.                                                    *)
(***************************************************************************)
\* Longest message, in vocabulary phrases, handed to the classifier.
MaxWords == 2
\* The clock stops at MaxNow seconds and advances TickStep seconds at a time.
MaxNow == 300
TickStep == 150

(***************************************************************************)
(* String built-ins.                                                       *)
(***************************************************************************)
UpperToLower ==
  ("A" :> "a") @@ ("B" :> "b") @@ ("C" :> "c") @@ ("D" :> "d") @@ ("E" :> "e") @@ ("F" :> "f") @@ ("G" :> "g") @@ ("H" :> "h") @@ ("I" :> "i") @@ ("J" :> "j") @@ ("K" :> "k") @@ ("L" :> "l") @@ ("M" :> "m") @@ ("N" :> "n") @@ ("O" :> "o") @@ ("P" :> "p") @@ ("Q" :> "q") @@ ("R" :> "r") @@ ("S" :> "s") @@ ("T" :> "t") @@ ("U" :> "u") @@ ("V" :> "v") @@ ("W" :> "w") @@ ("X" :> "x") @@ ("Y" :> "y") @@ ("Z" :> "z")

\* String.prototype.toLowerCase, on the letters the messages use.
toLowerCase(s) ==
  [i \in 1..Len(s) |-> IF s[i] \in DOMAIN UpperToLower THEN UpperToLower[s[i]] ELSE s[i]]

\* String.prototype.includes: k occurs in s as a contiguous substring.
includes(s, k) ==
  \E i \in 0..(Len(s) - Len(k)) : SubSeq(s, i + 1, i + Len(k)) = k

\* String.prototype.startsWith.
startsWith(s, k) ==
  /\ Len(k) <= Len(s)
  /\ SubSeq(s, 1, Len(k)) = k

\* The characters of keys and messages in UTF-16 code unit order, which is
\* the order Array.prototype.sort puts strings in.
CharOrder ==
  <<" ","-",".","0","1","2","3","4","5","6","7","8","9",":","A","B","C","D","E","F","G","H","I","J","K","L","M","N","O","P","Q","R","S","T","U","V","W","X","Y","Z","_","a","b","c","d","e","f","g","h","i","j","k","l","m","n","o","p","q","r","s","t","u","v","w","x","y","z">>

CharCode(c) == CHOOSE i \in 1..Len(CharOrder) : CharOrder[i] = c

\* a sorts before b, or equals it, in code unit order.
RECURSIVE LexLeq(_, _)
LexLeq(a, b) ==
  IF Len(a) = 0 THEN TRUE
  ELSE IF Len(b) = 0 THEN FALSE
  ELSE IF a[1] = b[1] THEN LexLeq(Tail(a), Tail(b))
  ELSE CharCode(a[1]) < CharCode(b[1])

\* String.prototype.substring(0, n).
substring0(s, n) == SubSeq(s, 1, IF Len(s) < n THEN Len(s) ELSE n)

\* Array.prototype.join.
RECURSIVE join(_, _)
join(parts, sep) ==
  IF Len(parts) = 0 THEN <<>>
  ELSE IF Len(parts) = 1 THEN parts[1]
  ELSE parts[1] \o sep \o join(Tail(parts), sep)

\* The phrases ws joined by single spaces.
RECURSIVE JoinWords(_)
JoinWords(ws) ==
  IF Len(ws) = 0 THEN <<>>
  ELSE IF Len(ws) = 1 THEN ws[1]
  ELSE ws[1] \o <<" ">> \o JoinWords(Tail(ws))

(***************************************************************************)
(* ChatHandler.classifyRequest (the second, API-executing definition).     *)
(***************************************************************************)
DynatraceKeywords ==
  { <<"d","q","l">>,
    <<"f","e","t","c","h">>,
    <<"p","r","o","b","l","e","m","s">>,
    <<"v","u","l","n","e","r","a","b","i","l","i","t","i","e","s">>,
    <<"e","n","t","i","t","i","e","s">>,
    <<"l","o","g","s">>,
    <<"m","e","t","r","i","c","s">>,
    <<"d","y","n","a","t","r","a","c","e">> }

ChatMarkers ==
  { <<"e","x","p","l","a","i","n">>,
    <<"h","o","w"," ","d","o">>,
    <<"w","h","a","t"," ","i","s">>,
    <<"h","e","l","p"," ","m","e">> }

CanYou == <<"c","a","n"," ","y","o","u">>

KnowledgeMarkers ==
  { <<"t","r","o","u","b","l","e","s","h","o","o","t">>,
    <<"i","n","v","e","s","t","i","g","a","t","e">>,
    <<"c","o","r","r","e","l","a","t","e">>,
    <<"m","e","t","h","o","d","o","l","o","g","y">> }

HelpMarkers ==
  { <<"h","e","l","p">>,
    <<"g","u","i","d","e">>,
    <<"h","o","w"," ","t","o">> }

Intents == {"dynatrace_query", "ollama_chat", "knowledge_query", "general_help"}

\* The first definition of the class tests the knowledge markers before the
\* chat markers and has no "dynatrace" keyword.
classifyRequestFirstDefinition(m) ==
  LET msg == toLowerCase(m) IN
  IF \E k \in DynatraceKeywords \ {<<"d","y","n","a","t","r","a","c","e">>} : includes(msg, k)
    THEN "dynatrace_query"
  ELSE IF \E k \in KnowledgeMarkers : includes(msg, k)
    THEN "knowledge_query"
  ELSE IF (\E k \in ChatMarkers : includes(msg, k)) \/ startsWith(msg, CanYou)
    THEN "ollama_chat"
  ELSE "general_help"

\* The chat markers tested before the Dynatrace keywords.
classifyRequestChatFirst(m) ==
  LET msg == toLowerCase(m) IN
  IF (\E k \in ChatMarkers : includes(msg, k)) \/ startsWith(msg, CanYou)
    THEN "ollama_chat"
  ELSE IF \E k \in DynatraceKeywords : includes(msg, k)
    THEN "dynatrace_query"
  ELSE IF \E k \in KnowledgeMarkers : includes(msg, k)
    THEN "knowledge_query"
  ELSE "general_help"

classifyRequest(m) ==
  LET msg == toLowerCase(m) IN
  IF \E k \in DynatraceKeywords : includes(msg, k)
    THEN "dynatrace_query"
  ELSE IF (\E k \in ChatMarkers : includes(msg, k)) \/ startsWith(msg, CanYou)
    THEN "ollama_chat"
  ELSE IF \E k \in KnowledgeMarkers : includes(msg, k)
    THEN "knowledge_query"
  ELSE IF \E k \in HelpMarkers : includes(msg, k)
    THEN "general_help"
  ELSE "general_help"

(***************************************************************************)
(* The chat messages of the model.                                         *)
(***************************************************************************)
ShowProblems == <<"s","h","o","w"," ","p","r","o","b","l","e","m","s">>
EnvironmentInfo == <<"d","y","n","a","t","r","a","c","e"," ","e","n","v","i","r","o","n","m","e","n","t"," ","i","n","f","o">>
ExplainTracing == <<"E","x","p","l","a","i","n"," ","t","r","a","c","i","n","g">>
TroubleshootIssue == <<"t","r","o","u","b","l","e","s","h","o","o","t"," ","t","h","i","s"," ","i","s","s","u","e">>
Hello == <<"h","e","l","l","o">>

\* A message argument that is not a string (undefined): toLowerCase throws.
Undefined == <<"undefined">>

\* The number of characters of the query that enter the cache key.
QueryKeyChars == 100

\* Live queries of QueryKeyChars + 1 characters that differ in the last
\* one only.
LongQuery(last) ==
  ShowProblems \o [i \in 1..(QueryKeyChars - Len(ShowProblems)) |-> " "] \o <<last>>
LongQueryA == LongQuery("a")
LongQueryB == LongQuery("b")
LongMsgs == {LongQueryA, LongQueryB}

\* The messages sent to the chat service.
ChatStrings == {ShowProblems, EnvironmentInfo, ExplainTracing, TroubleshootIssue, Hello}
ChatMsgs == ChatStrings \cup {Undefined}

\* The strings the handlers are evaluated on.
HandledStrings == ChatStrings \cup LongMsgs

\* classifyRequest of each chat message, evaluated once.
requestTypeOf == [m \in HandledStrings |-> classifyRequest(m)]


(***************************************************************************)
(* Values.  A response text is a sequence of segments: pieces of content   *)
(* (Txt) and the "_Source: <source> | <timestamp>_" trailer (Src) that     *)
(* formatResponse appends.  A backend result is an object with a type, a   *)
(* message and the realData flag (FALSE when the object has none).         *)
(***************************************************************************)
Txt(v) == [t |-> "text", v |-> v]
Src(v) == [t |-> "source", v |-> v]

Obj(type, msg, real) == [type |-> type, message |-> msg, realData |-> real]

\* JavaScript's null.
Null == Obj("null", <<>>, FALSE)

\* An awaited call: it returned value, or it threw (rejected).
Returned(v) == [threw |-> FALSE, value |-> v]
Threw == [threw |-> TRUE, value |-> Null]

\* JSON.stringify and JSON.parse of a plain object: the stored string
\* carries the object's own fields.
JSONstringify(v) == [json |-> v]
JSONparse(s) == s.json

\* A stored string that is not JSON text: JSON.parse throws on it.
NotJson == [text |-> "not json"]
IsJson(s) == "json" \in DOMAIN s

(***************************************************************************)
(* RedisMiddleware.                                                        *)
(***************************************************************************)
\* config.ttl, the default TTL in seconds.
ConfigTtl == 3600
\* The TTL of a cached Dynatrace query, in seconds.
DynatraceQueryTtl == 300

DtQueryType == <<"d","t",":","q","u","e","r","y">>
QueryParam == <<"q","u","e","r","y">>

\* Array.prototype.sort on the keys of params: the pairs of ps ordered by key.
RECURSIVE SortPairs(_)
SortPairs(ps) ==
  IF Len(ps) = 0 THEN <<>>
  ELSE LET i == CHOOSE i \in 1..Len(ps) : \A j \in 1..Len(ps) : LexLeq(ps[i][1], ps[j][1])
           rest == [k \in 1..(Len(ps) - 1) |-> IF k < i THEN ps[k] ELSE ps[k + 1]]
       IN <<ps[i]>> \o SortPairs(rest)

\* generateCacheKey(type, params): params is an object, given as its
\* <<key, value>> pairs in insertion order, or a scalar.
generateCacheKey(type, params) ==
  LET keyParts ==
        IF params.kind = "object"
          THEN <<type>> \o [i \in 1..Len(params.pairs) |->
                              SortPairs(params.pairs)[i][1] \o <<":">> \o SortPairs(params.pairs)[i][2]]
          ELSE <<type, params.value>>
  IN join(keyParts, <<":">>)

\* The key of cacheDynatraceQuery and getCachedDynatraceQuery.
DynatraceQueryKey(query) ==
  generateCacheKey(DtQueryType,
    [kind |-> "object", pairs |-> << <<QueryParam, substring0(query, QueryKeyChars)>> >>])

NoEntry == [value |-> Null, expiresAt |-> 0]

\* The entry the Redis server holds under key at the current time: none
\* once expiresAt is reached.
Entry(key) ==
  IF key \in DOMAIN store /\ now < store[key].expiresAt THEN store[key] ELSE NoEntry

\* What GET key answers.
Stored(key) == Entry(key).value

\* get without its try/catch: a failing client.get rejects.
getNoCatch(key, o) ==
  IF ~connected THEN Returned(Null) @@ [cmd |-> "offline"]
  ELSE IF o.redisGet = "fail" THEN Threw @@ [cmd |-> "fail"]
  ELSE IF Stored(key) # Null /\ ~IsJson(Stored(key)) THEN Threw @@ [cmd |-> "ok"]
  ELSE IF Stored(key) # Null THEN Returned(JSONparse(Stored(key))) @@ [cmd |-> "ok"]
  ELSE Returned(Null) @@ [cmd |-> "ok"]

\* get(key): null when not connected, when the key is absent or expired, and
\* when client.get or JSON.parse throws.  cmd records the GET command:
\* "offline" (none issued), "ok" or "fail".
get(key, o) ==
  IF ~connected THEN Returned(Null) @@ [cmd |-> "offline"]
  ELSE IF o.redisGet = "fail" THEN Returned(Null) @@ [cmd |-> "fail"]
  ELSE IF Stored(key) # Null /\ ~IsJson(Stored(key)) THEN Returned(Null) @@ [cmd |-> "ok"]
  ELSE IF Stored(key) # Null THEN Returned(JSONparse(Stored(key))) @@ [cmd |-> "ok"]
  ELSE Returned(Null) @@ [cmd |-> "ok"]

\* set(key, value, ttl): best effort; ttl 0 stands for the absent argument.
\* Yields the keyspace after the call and whether the SETEX was issued.
set(key, value, ttl, o) ==
  LET expiry == IF ttl # 0 THEN ttl ELSE ConfigTtl IN
  IF ~connected THEN [threw |-> FALSE, value |-> FALSE, store |-> store, cmd |-> "offline"]
  ELSE IF o.redisSet = "fail"
    THEN [threw |-> FALSE, value |-> FALSE, store |-> store, cmd |-> "fail"]
  ELSE [threw |-> FALSE, value |-> TRUE, cmd |-> "ok",
        store |-> (key :> [value |-> JSONstringify(value), expiresAt |-> now + expiry]) @@ store]

\* DynatraceQueryKey of each chat message, evaluated once.
queryKeyOf == [q \in HandledStrings |-> DynatraceQueryKey(q)]

\* set with DynatraceQueryTtl lost: the entry gets the one-hour default.
cacheDynatraceQueryDefaultTtl(query, result, o) ==
  set(queryKeyOf[query], result, 0, o)

\* cacheDynatraceQuery rejecting when the SETEX fails.
cacheDynatraceQueryNoCatch(query, result, o) ==
  IF connected /\ o.redisSet = "fail"
    THEN [threw |-> TRUE, value |-> FALSE, store |-> store, cmd |-> "fail"]
    ELSE set(queryKeyOf[query], result, DynatraceQueryTtl, o)

cacheDynatraceQuery(query, result, o) ==
  set(queryKeyOf[query], result, DynatraceQueryTtl, o)

\* The read with the key built from the query as a scalar parameter.
getCachedDynatraceQueryScalarKey(query, o) ==
  get(generateCacheKey(DtQueryType, [kind |-> "scalar", value |-> query]), o)

getCachedDynatraceQuery(query, o) ==
  get(queryKeyOf[query], o)

\* The booleans the middleware's methods return.
Bool(b) == [t |-> "boolean", v |-> b]

\* The keys of the keyspace at the current time.
LiveKeys == {k \in DOMAIN store : now < store[k].expiresAt}

\* The keyspace without the keys ks.
Without(ks) == [k \in DOMAIN store \ ks |-> store[k]]

\* del without its test of the connectivity flag.
delUngated(key, o) ==
  IF o.redisDel = "fail"
    THEN [threw |-> FALSE, value |-> FALSE, store |-> store, cmd |-> "fail"]
  ELSE [threw |-> FALSE, value |-> TRUE, store |-> Without({key}), cmd |-> "ok"]

\* del without its try/catch: a failing client.del rejects.
delNoCatch(key, o) ==
  IF ~connected THEN [threw |-> FALSE, value |-> FALSE, store |-> store, cmd |-> "offline"]
  ELSE IF o.redisDel = "fail"
    THEN [threw |-> TRUE, value |-> FALSE, store |-> store, cmd |-> "fail"]
  ELSE [threw |-> FALSE, value |-> TRUE, store |-> Without({key}), cmd |-> "ok"]

\* del(key): false when not connected or when client.del throws, true once
\* the DEL was answered, whether or not the key existed.
del(key, o) ==
  IF ~connected THEN [threw |-> FALSE, value |-> FALSE, store |-> store, cmd |-> "offline"]
  ELSE IF o.redisDel = "fail"
    THEN [threw |-> FALSE, value |-> FALSE, store |-> store, cmd |-> "fail"]
  ELSE [threw |-> FALSE, value |-> TRUE, store |-> Without({key}), cmd |-> "ok"]

\* The glob patterns of KEYS: "*" stands for any run of characters.
RECURSIVE GlobMatch(_, _)
GlobMatch(pattern, key) ==
  IF pattern = <<>> THEN key = <<>>
  ELSE IF Head(pattern) = "*"
    THEN GlobMatch(Tail(pattern), key) \/ (key # <<>> /\ GlobMatch(pattern, Tail(key)))
  ELSE key # <<>> /\ Head(key) = Head(pattern) /\ GlobMatch(Tail(pattern), Tail(key))

\* client.keys(pattern): the unexpired keys matching the pattern.
keys(pattern) == {k \in LiveKeys : GlobMatch(pattern, k)}

\* delPattern(pattern): KEYS, then one DEL of the keys found when there are
\* any; true once both were answered, false when not connected or when
\* either throws.  cmd is the KEYS command, cmd2 the DEL.
delPattern(pattern, o) ==
  IF ~connected
    THEN [threw |-> FALSE, value |-> FALSE, store |-> store, cmd |-> "offline", cmd2 |-> "none"]
  ELSE IF o.redisKeys = "fail"
    THEN [threw |-> FALSE, value |-> FALSE, store |-> store, cmd |-> "fail", cmd2 |-> "none"]
  ELSE IF keys(pattern) = {}
    THEN [threw |-> FALSE, value |-> TRUE, store |-> store, cmd |-> "ok", cmd2 |-> "none"]
  ELSE IF o.redisDel = "fail"
    THEN [threw |-> FALSE, value |-> FALSE, store |-> store, cmd |-> "ok", cmd2 |-> "fail"]
  ELSE [threw |-> FALSE, value |-> TRUE, store |-> Without(keys(pattern)),
        cmd |-> "ok", cmd2 |-> "ok"]

\* ping(): false when not connected or when client.ping throws, else
\* whether the answer is PONG.
ping(o) ==
  IF ~connected THEN [threw |-> FALSE, value |-> FALSE, cmd |-> "offline"]
  ELSE IF o.redisPing = "fail" THEN [threw |-> FALSE, value |-> FALSE, cmd |-> "fail"]
  ELSE [threw |-> FALSE, value |-> TRUE, cmd |-> "ok"]

(***************************************************************************)
(* The live backends: the executeQuery implementations of the repository.  *)
(* Each yields what the awaited call gave (a result object, or threw), the  *)
(* client's token afterwards and the network calls it made: log.auth is    *)
(* the token exchange, log.live1 and log.live2 the API requests, each      *)
(* "none", "ok" or "fail" ("empty": answered without the expected content).*)
(***************************************************************************)
NoToken == [accessToken |-> "", tokenExpiry |-> 0]

\* Date.now(), in milliseconds.
DateNow == now * 1000

\* The expires_in values, in seconds, the token endpoint answers with.
TokenLifetimes == {300}

NoBackendCalls == [auth |-> "none", live1 |-> "none", live2 |-> "none"]

Failed(outcome) == outcome = "fail"

\* DynatraceMCPBridge.listProblems: one POST to the MCP server; every
\* outcome, the failed request included, yields an object with realData.
listProblems(o) ==
  [ threw |-> FALSE,
    value |-> IF Failed(o.live1) THEN Obj("fallback_real_data", <<Txt("bridge: fallback problems")>>, TRUE)
              ELSE IF o.live1 = "empty" THEN Obj("known_problems", <<Txt("bridge: known problems")>>, TRUE)
              ELSE Obj("problems", <<Txt("bridge: problems via MCP")>>, TRUE),
    token |-> token,
    log |-> [NoBackendCalls EXCEPT !.live1 = o.live1] ]

\* DynatraceMCPBridge.executeQuery.
BridgeExecuteQuery(m, o) == listProblems(o)

\* DynatraceAPI.detectQueryType.
ApiDetectQueryType(m) ==
  LET msg == toLowerCase(m) IN
  IF includes(msg, <<"p","r","o","b","l","e","m","s">>) \/ includes(msg, <<"i","s","s","u","e","s">>) THEN "problems"
  ELSE IF includes(msg, <<"e","n","v","i","r","o","n","m","e","n","t">>) \/ includes(msg, <<"i","n","f","o">>) THEN "environment"
  ELSE "problems"

\* authenticate with the fields cleared when the exchange fails.
authenticateClearsToken(o) ==
  IF ~Failed(o.auth)
    THEN [value |-> TRUE, exchange |-> "ok",
          token |-> [accessToken |-> "token", tokenExpiry |-> DateNow + o.expiresIn * 1000]]
    ELSE [value |-> FALSE, exchange |-> "fail", token |-> NoToken]

\* authenticate() of DynatraceAPI and DynatraceWorkingAPI: one exchange with
\* the token endpoint; on success the token and its absolute expiry are
\* stored, on failure the fields are left alone.  value is TRUE for the
\* returned true.
authenticate(o) ==
  IF o.auth = "ok"
    THEN [value |-> TRUE, exchange |-> "ok",
          token |-> [accessToken |-> "token", tokenExpiry |-> DateNow + o.expiresIn * 1000]]
    ELSE [value |-> FALSE, exchange |-> "fail", token |-> token]

\* ensureAuthenticated without the test of the held token.
ensureAuthenticatedAlways(o) == authenticate(o)

\* DynatraceAPI.ensureAuthenticated.
ensureAuthenticated(o) ==
  IF token.accessToken = "" \/ DateNow >= token.tokenExpiry
    THEN authenticate(o)
    ELSE [value |-> TRUE, exchange |-> "none", token |-> token]

\* getProblems with the bearer token written into the result's message.
ApiGetProblemsEchoToken(o, tok, exchange) ==
  LET bothOk == ~Failed(o.live1) /\ ~Failed(o.live2) IN
  [ threw |-> FALSE,
    value |-> IF bothOk THEN Obj("problems", <<Txt("api: problems"), Txt(tok.accessToken)>>, TRUE)
              ELSE Obj("problems_error", <<Txt("api: call failed")>>, FALSE),
    token |-> tok,
    log |-> [auth |-> exchange,
             live1 |-> IF Failed(o.live1) THEN "fail" ELSE "ok",
             live2 |-> IF Failed(o.live1) THEN "none" ELSE o.live2] ]

\* DynatraceAPI.getProblems: the management request, then the problems
\* request; a failure of either is caught and returned as problems_error.
ApiGetProblems(o, tok, exchange) ==
  LET bothOk == ~Failed(o.live1) /\ ~Failed(o.live2) IN
  [ threw |-> FALSE,
    value |-> IF bothOk THEN Obj("problems", <<Txt("api: problems")>>, TRUE)
              ELSE Obj("problems_error", <<Txt("api: call failed")>>, FALSE),
    token |-> tok,
    log |-> [auth |-> exchange,
             live1 |-> IF Failed(o.live1) THEN "fail" ELSE "ok",
             live2 |-> IF Failed(o.live1) THEN "none" ELSE o.live2] ]

\* DynatraceAPI.getEnvironmentInfo: one request; its failure is rethrown.
ApiGetEnvironmentInfo(o, tok, exchange) ==
  [ threw |-> Failed(o.live1),
    value |-> IF Failed(o.live1) THEN Null
              ELSE Obj("environment", <<Txt("api: environment")>>, TRUE),
    token |-> tok,
    log |-> [auth |-> exchange,
             live1 |-> IF Failed(o.live1) THEN "fail" ELSE "ok",
             live2 |-> "none"] ]

\* ApiDetectQueryType of each chat message, evaluated once.
apiQueryTypeOf == [m \in HandledStrings |-> ApiDetectQueryType(m)]

\* executeQuery going on to the API request whatever ensureAuthenticated
\* returned.
ApiExecuteQueryUnchecked(m, o) ==
  LET queryType == apiQueryTypeOf[m]
      authResult == ensureAuthenticated(o)
  IN
  IF platformToken
    THEN [threw |-> FALSE, token |-> token, log |-> NoBackendCalls,
          value |-> Obj("platform_token", <<Txt("api: platform token ready")>>, FALSE)]
  ELSE IF queryType = "problems"
    THEN ApiGetProblems(o, authResult.token, authResult.exchange)
  ELSE ApiGetEnvironmentInfo(o, authResult.token, authResult.exchange)

\* DynatraceAPI.executeQuery.
ApiExecuteQuery(m, o) ==
  LET queryType == apiQueryTypeOf[m]
      authResult == ensureAuthenticated(o)
  IN
  IF platformToken
    THEN [threw |-> FALSE, token |-> token, log |-> NoBackendCalls,
          value |-> Obj("platform_token", <<Txt("api: platform token ready")>>, FALSE)]
  ELSE IF ~authResult.value
    THEN [threw |-> FALSE, token |-> authResult.token,
          log |-> [NoBackendCalls EXCEPT !.auth = authResult.exchange],
          value |-> Obj("auth_error", <<Txt("api: authentication status")>>, FALSE)]
  ELSE IF queryType = "problems"
    THEN ApiGetProblems(o, authResult.token, authResult.exchange)
  ELSE ApiGetEnvironmentInfo(o, authResult.token, authResult.exchange)

\* DynatraceWorkingAPI.detectQueryType.
WorkingDetectQueryType(m) ==
  LET msg == toLowerCase(m) IN
  IF includes(msg, <<"p","r","o","b","l","e","m","s">>) \/ includes(msg, <<"i","s","s","u","e","s">>)
       \/ includes(msg, <<"i","n","c","i","d","e","n","t","s">>) THEN "problems"
  ELSE IF includes(msg, <<"e","n","v","i","r","o","n","m","e","n","t">>) \/ includes(msg, <<"s","t","a","t","u","s">>) THEN "environment"
  ELSE "problems"

\* DynatraceWorkingAPI.getEnvironmentInfo: the request named by which
\* ("live1" or "live2"); its failure is rethrown.
WorkingGetEnvironmentInfo(o, tok, which, log) ==
  [ threw |-> Failed(o[which]),
    value |-> IF Failed(o[which]) THEN Null
              ELSE Obj("environment", <<Txt("working: environment")>>, TRUE),
    token |-> tok,
    log |-> [log EXCEPT ![which] = IF Failed(o[which]) THEN "fail" ELSE "ok"] ]

\* DynatraceWorkingAPI.getProblems: the problems request; when it fails,
\* the environment request in its place.
WorkingGetProblems(o, tok) ==
  LET log == [auth |-> "ok", live1 |-> IF Failed(o.live1) THEN "fail" ELSE "ok", live2 |-> "none"] IN
  IF Failed(o.live1) THEN WorkingGetEnvironmentInfo(o, tok, "live2", log)
  ELSE [threw |-> FALSE, token |-> tok, log |-> log,
        value |-> Obj("problems", <<Txt("working: problems")>>, TRUE)]

\* WorkingDetectQueryType of each chat message, evaluated once.
workingQueryTypeOf == [m \in HandledStrings |-> WorkingDetectQueryType(m)]

\* DynatraceWorkingAPI.executeQuery: authenticates on every call.
WorkingExecuteQuery(m, o) ==
  LET queryType == workingQueryTypeOf[m]
      authenticated == authenticate(o)
  IN
  IF ~authenticated.value
    THEN [threw |-> FALSE, token |-> authenticated.token,
          log |-> [NoBackendCalls EXCEPT !.auth = "fail"],
          value |-> Obj("auth_failed", <<Txt("working: authentication failed")>>, FALSE)]
  ELSE IF queryType = "environment"
    THEN WorkingGetEnvironmentInfo(o, authenticated.token, "live1",
                                   [NoBackendCalls EXCEPT !.auth = "ok"])
  ELSE WorkingGetProblems(o, authenticated.token)

\* this.dynatraceMCP.executeQuery(message).
executeQuery(m, o) ==
  IF backend = "bridge" THEN BridgeExecuteQuery(m, o)
  ELSE IF backend = "api" THEN ApiExecuteQuery(m, o)
  ELSE WorkingExecuteQuery(m, o)

(***************************************************************************)
(* KnowledgeBase and the model backend.                                    *)
(***************************************************************************)
\* KnowledgeBase.query: a canned document chosen by keyword; the general
\* help document when no keyword matches.
query(m) ==
  LET msg == toLowerCase(m) IN
  IF includes(msg, <<"p","r","o","b","l","e","m">>) \/ includes(msg, <<"i","s","s","u","e">>) \/ includes(msg, <<"f","a","i","l","u","r","e">>)
    THEN Returned(Obj("knowledge", <<Txt("kb: troubleshooting methodology")>>, FALSE))
  ELSE IF includes(msg, <<"d","q","l">>) \/ includes(msg, <<"d","y","n","a","t","r","a","c","e">>) \/ includes(msg, <<"q","u","e","r","y">>)
    THEN Returned(Obj("knowledge", <<Txt("kb: dynatrace guidance")>>, FALSE))
  ELSE Returned(Obj("knowledge", <<Txt("kb: general help")>>, FALSE))

\* OllamaClient.chat: the request to the model backend returns generated
\* text, or fails.
OllamaChat(outcome) ==
  IF Failed(outcome) THEN Threw
  ELSE Returned(Obj("ollama", <<Txt("model: generated text")>>, FALSE))

(***************************************************************************)
(* ChatHandler (the second, API-executing definition).  A handler yields   *)
(* what its promise settles to (threw: rejected; text: the string it       *)
(* resolved to), the keyspace and the token afterwards, and the log of     *)
(* the backend calls of the request.                                       *)
(***************************************************************************)
EmptyLog ==
  [redisGet |-> "none", redisSet |-> "none", auth |-> "none", live1 |-> "none",
   live2 |-> "none", enrich |-> "none", chat |-> "none", kb |-> "none"]

Resolved(text, st, tok, log) ==
  [threw |-> FALSE, text |-> text, store |-> st, token |-> tok, log |-> log]

Rejected(st, tok, log) ==
  [threw |-> TRUE, text |-> <<>>, store |-> st, token |-> tok, log |-> log]

\* formatResponse: the message of the content (its JSON text when it has
\* none) followed by the provenance trailer.  The trailer's timestamp is
\* not part of the segment.
formatResponse(content, source) ==
  LET formatted == IF content # Null /\ content.message # <<>>
                     THEN content.message
                     ELSE <<Txt("json text")>>
  IN formatted \o <<Src(source)>>

\* formatErrorResponse: the error's message and the list of hints.
formatErrorResponse(error) == <<Txt("error occurred"), Txt(error)>>

\* generateHelpResponse.
generateHelpResponse(m) == Obj("help", <<Txt("help: capability summary")>>, FALSE)

\* KnowledgeBase.query of each chat message, evaluated once.
knowledgeOf == [m \in HandledStrings |-> query(m)]

handleKnowledgeQuery(m, o, st, tok, log) ==
  LET knowledgeResponse == knowledgeOf[m] IN
  IF knowledgeResponse.threw
    THEN Rejected(st, tok, [log EXCEPT !.kb = "fail"])
    ELSE Resolved(formatResponse(knowledgeResponse.value, "knowledge"), st, tok,
                  [log EXCEPT !.kb = "ok"])

\* handleOllamaChat without its try/catch: a failing chat call rejects.
handleOllamaChatNoCatch(m, o, st, tok, log) ==
  LET ollamaResponse == OllamaChat(o.chat) IN
  IF ~ollamaResponse.threw
    THEN Resolved(formatResponse(ollamaResponse.value, "phi3-general"), st, tok,
                  [log EXCEPT !.chat = "ok"])
    ELSE Rejected(st, tok, [log EXCEPT !.chat = "fail"])

handleOllamaChat(m, o, st, tok, log) ==
  LET ollamaResponse == OllamaChat(o.chat) IN
  IF ~ollamaResponse.threw
    THEN Resolved(formatResponse(ollamaResponse.value, "phi3-general"), st, tok,
                  [log EXCEPT !.chat = "ok"])
    ELSE handleKnowledgeQuery(m, o, st, tok, [log EXCEPT !.chat = "fail"])

handleGeneralHelp(m, o, st, tok, log) ==
  Resolved(formatResponse(generateHelpResponse(m), "help"), st, tok, log)

\* The combined response built whether or not the analysis call succeeded.
CombinedResponseAlways(apiResult, phi3Analysis) ==
  IF apiResult.realData
    THEN Obj("combined",
             apiResult.message \o <<Txt("AI Analysis")>> \o phi3Analysis.value.message,
             FALSE)
    ELSE apiResult

\* The combined response of handleDynatraceQuery: the API result alone, or,
\* when it carries real data and the analysis call succeeds, its message
\* followed by the analysis.
CombinedResponse(apiResult, phi3Analysis) ==
  IF apiResult.realData /\ ~phi3Analysis.threw
    THEN Obj("combined",
             apiResult.message \o <<Txt("AI Analysis")>> \o phi3Analysis.value.message,
             FALSE)
    ELSE apiResult

handleDynatraceQuery(m, o, st, tok, log) ==
  LET cached == getCachedDynatraceQuery(m, o)
      log0 == [log EXCEPT !.redisGet = cached.cmd]
      api == executeQuery(m, o)
      log1 == [log0 EXCEPT !.auth = api.log.auth, !.live1 = api.log.live1,
                           !.live2 = api.log.live2]
      phi3Analysis == OllamaChat(o.enrich)
      combinedResponse == CombinedResponse(api.value, phi3Analysis)
      log2 == [log1 EXCEPT !.enrich = IF api.value.realData THEN o.enrich ELSE "none"]
      written == cacheDynatraceQuery(m, combinedResponse, o)
      log3 == [log2 EXCEPT !.redisSet = written.cmd]
  IN
  IF cached.threw THEN Rejected(st, tok, log0)
  ELSE IF cached.value # Null
    THEN Resolved(formatResponse(cached.value, "cache"), st, tok, log0)
  ELSE IF api.threw
    THEN handleOllamaChat(m, o, st, api.token, log1)
  ELSE IF written.threw
    THEN handleOllamaChat(m, o, st, api.token, log3)
  ELSE Resolved(formatResponse(combinedResponse, "dynatrace-working-api"),
                written.store, api.token, log3)

\* handleMessage: the classification runs inside the try; the handler's
\* promise is returned without being awaited, so it settles the call.
handleMessage(m, o) ==
  IF m = Undefined
    THEN Resolved(formatErrorResponse("TypeError"), store, token, EmptyLog)
  ELSE LET type == requestTypeOf[m] IN
    IF type = "dynatrace_query" THEN handleDynatraceQuery(m, o, store, token, EmptyLog)
    ELSE IF type = "knowledge_query" THEN handleKnowledgeQuery(m, o, store, token, EmptyLog)
    ELSE IF type = "ollama_chat" THEN handleOllamaChat(m, o, store, token, EmptyLog)
    ELSE handleGeneralHelp(m, o, store, token, EmptyLog)

(***************************************************************************)
(* SessionManager and the session helpers of RedisMiddleware.  A session   *)
(* is the object createSession builds; undefined and null fields are the   *)
(* values named No... below.  Timestamps are the clock's seconds.          *)
(***************************************************************************)
\* setSession's default ttl, in seconds.
SessionTtl == 86400
\* addMessage keeps the last RecentQueries queries.
RecentQueries == 5
\* addMessage stores the first ResponseChars characters of the response.
ResponseChars == 200
Ellipsis == <<".",".",".">>

FetchLogs == <<"f","e","t","c","h"," ","l","o","g","s">>
OmsDown == <<"O","M","S"," ","i","s"," ","d","o","w","n">>

\* The messages recorded in sessions, the session ids and the responses.
SessionMsgs == {ShowProblems, FetchLogs, OmsDown, Hello}
QueryMsgs == {ShowProblems, FetchLogs}
\* Messages for the precedence of the topics: both keyword lists, and the
\* ADT list alone.
OmsProblems == <<"o","m","s"," ","p","r","o","b","l","e","m","s">>
MulesoftIssue == <<"m","u","l","e","s","o","f","t"," ","i","s","s","u","e">>
TopicMsgs == {OmsProblems, OmsDown, MulesoftIssue}
RecordedMsgs == SessionMsgs \cup TopicMsgs \cup ChatStrings
SessionIds == {<<"s","1">>}
Responses == {<<"o","k">>}

\* `session:${sessionId}`
SessionKey(sessionId) == <<"s","e","s","s","i","o","n",":">> \o sessionId

\* RedisMiddleware.getSession.
redisGetSession(sessionId, o) == get(SessionKey(sessionId), o)

\* setSession writing under the bare session id.
redisSetSessionBareKey(sessionId, data, o) == set(sessionId, data, SessionTtl, o)

\* RedisMiddleware.setSession, with its default ttl.
redisSetSession(sessionId, data, o) == set(SessionKey(sessionId), data, SessionTtl, o)

\* context.adtContext: null.
NoAdtContext == [systems |-> <<>>, problemType |-> "null", urgency |-> "null"]

\* session.lastMessage: undefined.
NoLastMessage == [message |-> <<>>, response |-> <<>>, timestamp |-> 0, defined |-> FALSE]

\* SessionManager.createSession: the session object, before it is written.
createSession(sessionId) ==
  [ id |-> sessionId,
    createdAt |-> now,
    updatedAt |-> now,
    messageCount |-> 0,
    context |-> [currentTopic |-> "null", dynatraceQueries |-> <<>>, adtContext |-> NoAdtContext],
    preferences |-> [cacheEnabled |-> TRUE, responseFormat |-> "detailed"],
    lastMessage |-> NoLastMessage ]

DtKeywords ==
  { <<"d","q","l">>, <<"f","e","t","c","h">>, <<"p","r","o","b","l","e","m","s">>,
    <<"e","n","t","i","t","i","e","s">>, <<"m","e","t","r","i","c","s">>, <<"l","o","g","s">>,
    <<"v","u","l","n","e","r","a","b","i","l","i","t","i","e","s">> }

AdtKeywords ==
  { <<"o","m","s">>, <<"m","y","a","d","t">>, <<"m","o","b","i","l","e","t","e","c","h">>,
    <<"m","t","2">>, <<"i","i","b">>, <<"d","a","t","a","p","o","w","e","r">>,
    <<"m","u","l","e","s","o","f","t">>, <<"s","a","l","e","s","f","o","r","c","e">> }

\* SessionManager.isDynatraceQuery.
isDynatraceQuery(m) == \E keyword \in DtKeywords : includes(toLowerCase(m), keyword)

\* SessionManager.isADTQuery.
isADTQuery(m) == \E keyword \in AdtKeywords : includes(toLowerCase(m), keyword)

\* The systemMentions table of extractADTContext, in its order.
SystemMentions ==
  << [system |-> "oms", keywords |-> {<<"o","m","s">>, <<"o","r","d","e","r"," ","m","a","n","a","g","e","m","e","n","t">>}],
     [system |-> "myadt", keywords |-> {<<"m","y","a","d","t">>, <<"c","u","s","t","o","m","e","r"," ","p","o","r","t","a","l">>}],
     [system |-> "mt2", keywords |-> {<<"m","t","2">>, <<"m","o","b","i","l","e","t","e","c","h">>, <<"m","o","b","i","l","e"," ","t","e","c","h">>}],
     [system |-> "iib", keywords |-> {<<"i","i","b">>, <<"i","n","t","e","g","r","a","t","i","o","n"," ","b","u","s">>}],
     [system |-> "datapower", keywords |-> {<<"d","a","t","a","p","o","w","e","r">>, <<"d","a","t","a"," ","p","o","w","e","r">>}],
     [system |-> "mulesoft", keywords |-> {<<"m","u","l","e","s","o","f","t">>, <<"c","l","o","u","d","h","u","b">>}] >>

\* The systems of the table that m mentions, in the table's order.
RECURSIVE MentionedSystems(_, _)
MentionedSystems(m, i) ==
  IF i > Len(SystemMentions) THEN <<>>
  ELSE (IF \E keyword \in SystemMentions[i].keywords : includes(toLowerCase(m), keyword)
          THEN <<SystemMentions[i].system>> ELSE <<>>)
       \o MentionedSystems(m, i + 1)

\* extractADTContext with the two urgency tests in the other order.
extractADTContextUrgentFirst(m) ==
  LET msg == toLowerCase(m) IN
  [ systems |-> MentionedSystems(m, 1),
    problemType |-> "null",
    urgency |-> IF includes(msg, <<"u","r","g","e","n","t">>) \/ includes(msg, <<"i","s","s","u","e">>)
                  THEN "high"
                ELSE IF includes(msg, <<"c","r","i","t","i","c","a","l">>) \/ includes(msg, <<"d","o","w","n">>)
                  THEN "critical"
                ELSE "normal" ]

\* SessionManager.extractADTContext.
extractADTContext(m) ==
  LET msg == toLowerCase(m) IN
  [ systems |-> MentionedSystems(m, 1),
    problemType |-> "null",
    urgency |-> IF includes(msg, <<"c","r","i","t","i","c","a","l">>) \/ includes(msg, <<"d","o","w","n">>)
                  THEN "critical"
                ELSE IF includes(msg, <<"u","r","g","e","n","t">>) \/ includes(msg, <<"i","s","s","u","e">>)
                  THEN "high"
                ELSE "normal" ]

\* addMessage testing isADTQuery before isDynatraceQuery.
topicOfAdtFirst ==
  [m \in RecordedMsgs |-> IF isADTQuery(m) THEN "adt"
                          ELSE IF isDynatraceQuery(m) THEN "dynatrace" ELSE "none"]

\* What addMessage does with the context for each session message,
\* evaluated once: "dynatrace", "adt" or "none", and the extracted context.
topicOf ==
  [m \in RecordedMsgs |-> IF isDynatraceQuery(m) THEN "dynatrace"
                          ELSE IF isADTQuery(m) THEN "adt" ELSE "none"]
adtContextOf == [m \in RecordedMsgs |-> extractADTContext(m)]

\* Array.prototype.slice(0, n).
sliceFirst(s, n) == SubSeq(s, 1, IF Len(s) > n THEN n ELSE Len(s))

\* Array.prototype.slice(-n).
sliceLast(s, n) == SubSeq(s, IF Len(s) > n THEN Len(s) - n + 1 ELSE 1, Len(s))

\* The updates of addMessage with messageCount left as it is.
addMessageUpdatesSameCount(session, m, response) ==
  [ messageCount |-> session.messageCount,
    lastMessage |-> [message |-> m, response |-> substring0(response, ResponseChars) \o Ellipsis,
                     timestamp |-> now, defined |-> TRUE],
    hasContext |-> topicOf[m] # "none",
    context |->
      IF topicOf[m] = "dynatrace"
        THEN [session.context EXCEPT
                !.currentTopic = "dynatrace",
                !.dynatraceQueries = sliceLast(session.context.dynatraceQueries \o <<m>>, RecentQueries)]
      ELSE IF topicOf[m] = "adt"
        THEN [session.context EXCEPT !.currentTopic = "adt", !.adtContext = adtContextOf[m]]
      ELSE session.context ]

\* The updates of addMessage with a fresh context for the other messages.
addMessageUpdatesFreshContext(session, m, response) ==
  [ messageCount |-> session.messageCount + 1,
    lastMessage |-> [message |-> m, response |-> substring0(response, ResponseChars) \o Ellipsis,
                     timestamp |-> now, defined |-> TRUE],
    hasContext |-> TRUE,
    context |->
      IF topicOf[m] = "dynatrace"
        THEN [session.context EXCEPT
                !.currentTopic = "dynatrace",
                !.dynatraceQueries = sliceLast(session.context.dynatraceQueries \o <<m>>, RecentQueries)]
      ELSE IF topicOf[m] = "adt"
        THEN [session.context EXCEPT !.currentTopic = "adt", !.adtContext = adtContextOf[m]]
      ELSE createSession(session.id).context ]

\* addMessage storing the ellipsis without the response.
addMessageUpdatesNoResponse(session, m, response) ==
  [ messageCount |-> session.messageCount + 1,
    lastMessage |-> [message |-> m, response |-> Ellipsis, timestamp |-> now, defined |-> TRUE],
    hasContext |-> topicOf[m] # "none",
    context |->
      IF topicOf[m] = "dynatrace"
        THEN [session.context EXCEPT
                !.currentTopic = "dynatrace",
                !.dynatraceQueries = sliceLast(session.context.dynatraceQueries \o <<m>>, RecentQueries)]
      ELSE IF topicOf[m] = "adt"
        THEN [session.context EXCEPT !.currentTopic = "adt", !.adtContext = adtContextOf[m]]
      ELSE session.context ]

\* addMessage: the updates object built from the session it got.  context
\* is a key of the object only when hasContext.
addMessageUpdates(session, m, response) ==
  [ messageCount |-> session.messageCount + 1,
    lastMessage |-> [message |-> m, response |-> substring0(response, ResponseChars) \o Ellipsis,
                     timestamp |-> now, defined |-> TRUE],
    hasContext |-> topicOf[m] # "none",
    context |->
      IF topicOf[m] = "dynatrace"
        THEN [session.context EXCEPT
                !.currentTopic = "dynatrace",
                !.dynatraceQueries = sliceLast(session.context.dynatraceQueries \o <<m>>, RecentQueries)]
      ELSE IF topicOf[m] = "adt"
        THEN [session.context EXCEPT !.currentTopic = "adt", !.adtContext = adtContextOf[m]]
      ELSE session.context ]

\* updateSession merging the other way round: { ...updates, ...session,
\* updatedAt }, the fields of the session it read win.
updatedSessionFoundWins(session, updates) == [session EXCEPT !.updatedAt = now]

\* SessionManager.updateSession: { ...session, ...updates, updatedAt }.
updatedSession(session, updates) ==
  [ session EXCEPT
      !.messageCount = updates.messageCount,
      !.lastMessage = updates.lastMessage,
      !.context = IF updates.hasContext THEN updates.context ELSE @,
      !.updatedAt = now ]

\* SessionManager.getSessionStats: the object it returns; duration in
\* milliseconds.
sessionStats(session) ==
  [ messageCount |-> session.messageCount,
    duration |-> (now - session.createdAt) * 1000,
    currentTopic |-> session.context.currentTopic,
    cacheHits |-> 0 ]

\* The SessionManager calls that may be in progress at once.
Procs == {1, 2}

\* A call of a SessionManager method: the method, where it stands (pc), its
\* arguments, the session addMessage got (first), the session
\* updateSession got (session), the updates object, the returned value,
\* the Redis commands it issued, the createSession calls it made, and the
\* keyspace when it began.
Idle ==
  [ op |-> "idle", pc |-> "idle", sessionId |-> <<>>, message |-> <<>>, response |-> <<>>,
    first |-> Null, session |-> Null, updates |-> Null, ret |-> Null,
    log |-> <<>>, created |-> 0, before |-> <<>> ]

\* addMessage is called while the stored messageCount is below a bound:
\* MaxExchanges with all the session messages, MaxMessages with the live
\* queries alone, MaxRaceMessages when calls overlap.
MaxExchanges == 2
MaxMessages == 7
MaxRaceMessages == 1

MixedWorkload == [msgs |-> SessionMsgs, max |-> MaxExchanges]
TopicWorkload == [msgs |-> TopicMsgs, max |-> MaxExchanges]
QueryWorkload == [msgs |-> QueryMsgs, max |-> MaxMessages]
RaceWorkload == [msgs |-> {ShowProblems, Hello}, max |-> MaxRaceMessages]

SessionIdle ==
  /\ calls = [p \in Procs |-> Idle]
  /\ concurrent = FALSE
  /\ workload = MixedWorkload
  /\ extracted = Null

(***************************************************************************)
(* The chat service: requests handled one after another, the clock, and    *)
(* the Redis connection going up and down.                                 *)
(***************************************************************************)

\* What the backends may answer during one request.  A call that the
\* configuration never makes has the single outcome "ok".
Outcomes ==
  LET either == {"ok", "fail"}
      redis == IF connected THEN either ELSE {"ok"}
      oauth == IF backend = "bridge" \/ platformToken THEN {"ok"} ELSE either
  IN
  [redisGet : redis, redisSet : redis, auth : oauth, expiresIn : TokenLifetimes,
   live1 : IF backend = "bridge" THEN {"ok", "empty", "fail"} ELSE either,
   live2 : IF backend = "bridge" THEN {"ok"} ELSE either,
   enrich : either, chat : either]

NoRequest ==
  [msg |-> <<>>, at |-> 0, threw |-> FALSE, text |-> <<>>, log |-> EmptyLog,
   entry |-> NoEntry, held |-> NoToken]

\* The state before the service takes requests: no request handled, Redis
\* not connected, nothing cached, no token held.
ChatIdle ==
  /\ backend = "bridge"
  /\ platformToken = FALSE
  /\ connected = FALSE
  /\ now = 0
  /\ store = <<>>
  /\ token = NoToken
  /\ req = NoRequest

ClassifyIdle ==
  /\ message = <<>>
  /\ requestType = "none"

\* No RedisMiddleware method called yet; writes keeps, for each key, the
\* last successful set of the key that no del, delPattern or other writer
\* has undone: its time, the ttl argument and the value.
NoCall ==
  [ last |-> [op |-> "none", key |-> <<>>, ttl |-> 0, at |-> 0, flag |-> FALSE,
              threw |-> FALSE, value |-> Null, cmd |-> "none", cmd2 |-> "none",
              before |-> <<>>, known |-> <<>>],
    writes |-> <<>> ]

\* The server as started: connect() has created the client, no
\* RedisMiddleware call is recorded, no POST /chat is in progress.
ServiceIdle ==
  /\ client = "open"
  /\ rcall = NoCall
  /\ route = "idle"

\* The ChatHandler as constructed: dynatraceMCP is a DynatraceMCPBridge.
Init ==
  /\ ClassifyIdle
  /\ ServiceIdle
  /\ ChatIdle
  /\ SessionIdle

\* The ChatHandler holding any of the repository's API clients.
InitAny ==
  /\ ClassifyIdle
  /\ ServiceIdle
  /\ backend \in {"bridge", "api", "working"}
  /\ platformToken \in (IF backend = "api" THEN BOOLEAN ELSE {FALSE})
  /\ connected = FALSE
  /\ now = 0
  /\ store = <<>>
  /\ token = NoToken
  /\ req = NoRequest
  /\ SessionIdle

\* One call of handleMessage, from the call to the settling of its promise.
\* req keeps the message, the time of the call, what the promise settled
\* to, the backend calls made, and the cache entry of the message and the
\* token held when the call began.  The service takes the next request once the caller has the
\* result.
HandleMessage ==
  /\ req = NoRequest
  /\ \E m \in ChatMsgs : \E o \in Outcomes :
    LET r == handleMessage(m, o) IN
    /\ req' = [msg |-> m, at |-> now, threw |-> r.threw, text |-> r.text, log |-> r.log,
               entry |-> IF m # Undefined /\ requestTypeOf[m] = "dynatrace_query"
                           THEN Entry(queryKeyOf[m]) ELSE NoEntry,
               held |-> token]
    /\ store' = r.store
    /\ token' = r.token
    /\ UNCHANGED <<backend, platformToken, connected, now, classifyVars, sessionVars, serviceVars>>

\* The caller of handleMessage receives what the call settled to.
Deliver ==
  /\ req # NoRequest
  /\ req' = NoRequest
  /\ UNCHANGED <<backend, platformToken, connected, now, store, token, classifyVars, sessionVars, serviceVars>>

\* No SessionManager call is in progress, or calls are let overlap with
\* each other and with the clock and the connection events.
BetweenCalls == concurrent \/ \A p \in Procs : calls[p].op = "idle"

\* Time passes; the Redis server drops the entries that have expired.
Tick ==
  /\ req = NoRequest
  /\ BetweenCalls
  /\ now + TickStep <= MaxNow
  /\ now' = now + TickStep
  /\ store' = [k \in {k \in DOMAIN store : now' < store[k].expiresAt} |-> store[k]]
  /\ UNCHANGED <<backend, platformToken, connected, token, req, classifyVars, sessionVars, serviceVars>>

\* The client's 'connect' event.
RedisConnected ==
  /\ req = NoRequest
  /\ BetweenCalls
  /\ ~connected
  /\ connected' = TRUE
  /\ UNCHANGED <<backend, platformToken, now, store, token, req, classifyVars, sessionVars, serviceVars>>

\* The client's 'error' event, a failed connect, or disconnect().
RedisDisconnected ==
  /\ req = NoRequest
  /\ BetweenCalls
  /\ connected
  /\ connected' = FALSE
  /\ UNCHANGED <<backend, platformToken, now, store, token, req, classifyVars, sessionVars, serviceVars>>

Next ==
  \/ HandleMessage
  \/ Deliver
  \/ Tick
  \/ RedisConnected
  \/ RedisDisconnected

Spec == Init /\ [][Next]_vars

SpecAny == InitAny /\ [][Next]_vars

\* The chat service asked the short live query and the long ones.  The
\* call also notes, beside the keyspace, the message for which each cache
\* key was last written (rcall.writes).
LongWorkload == {ShowProblems} \cup LongMsgs

HandleLongMessage ==
  /\ req = NoRequest
  /\ \E m \in LongWorkload : \E o \in Outcomes :
    LET r == handleMessage(m, o) IN
    /\ req' = [msg |-> m, at |-> now, threw |-> r.threw, text |-> r.text, log |-> r.log,
               entry |-> Entry(queryKeyOf[m]), held |-> token]
    /\ store' = r.store
    /\ token' = r.token
    /\ rcall' = [rcall EXCEPT !.writes =
                   IF r.log.redisSet = "ok" THEN (queryKeyOf[m] :> m) @@ @ ELSE @]
    /\ UNCHANGED <<backend, platformToken, connected, now, classifyVars, sessionVars,
                   client, route>>

NextLong ==
  \/ HandleLongMessage
  \/ Deliver
  \/ Tick
  \/ RedisConnected
  \/ RedisDisconnected

SpecLong == Init /\ [][NextLong]_vars

(***************************************************************************)
(* Messages the classifier is run on: every sequence of at most MaxWords   *)
(* vocabulary phrases, and the two example sentences.                      *)
(***************************************************************************)
Vocab ==
  { <<"p","r","o","b","l","e","m","s">>,
    <<"P","r","o","b","l","e","m","s">>,
    <<"b","l","o","g","s">>,
    <<"d","y","n","a","t","r","a","c","e">>,
    <<"e","x","p","l","a","i","n">>,
    <<"h","o","w"," ","d","o">>,
    <<"h","e","l","p"," ","m","e">>,
    <<"c","a","n"," ","y","o","u">>,
    <<"t","r","o","u","b","l","e","s","h","o","o","t">>,
    <<"m","e","t","h","o","d","o","l","o","g","y">>,
    <<"h","e","l","p">>,
    <<"h","o","w"," ","t","o">>,
    <<"h","e","l","l","o">>,
    <<"p","r","o","b","l","e","m">> }

ExampleLive == <<"c","a","n"," ","y","o","u"," ","e","x","p","l","a","i","n"," ","t","h","e"," ","p","r","o","b","l","e","m","s"," ","l","i","s","t">>

ExampleChat == <<"e","x","p","l","a","i","n"," ","h","o","w"," ","t","o"," ","t","r","o","u","b","l","e","s","h","o","o","t">>

ClassifyMsgs ==
  { JoinWords(ws) : ws \in UNION { [1..n -> Vocab] : n \in 1..MaxWords } }
    \cup {ExampleLive, ExampleChat}

InitClassify ==
  /\ message \in ClassifyMsgs
  /\ requestType = "none"
  /\ ServiceIdle
  /\ ChatIdle
  /\ SessionIdle

\* handleMessage's first step: classify the message.
Classify ==
  /\ requestType = "none"
  /\ requestType' = classifyRequest(message)
  /\ UNCHANGED <<message, chatVars, sessionVars, serviceVars>>

NextClassify == Classify

SpecClassify == InitClassify /\ [][NextClassify]_vars

(***************************************************************************)
(* The session service: calls of SessionManager methods.  A call advances  *)
(* from one awaited Redis command to the next; what it does between two    *)
(* commands is one step.  Calls follow one another, or overlap when        *)
(* concurrent.                                                             *)
(***************************************************************************)
\* What a Redis command of a session call may answer.  The runs with
\* overlapping calls are those in which every command issued succeeds.
SessionOutcomes == IF connected /\ ~concurrent THEN {"ok", "fail"} ELSE {"ok"}

\* The session stored under the id, Null when there is none.
PersistedSession(sessionId) ==
  IF Entry(SessionKey(sessionId)) = NoEntry THEN Null
  ELSE JSONparse(Entry(SessionKey(sessionId)).value)

Logged(c, cmd, res) == [c EXCEPT !.log = @ \o <<[cmd |-> cmd, res |-> res]>>]

\* SessionManager.getSession has a session for its caller: getSession
\* itself returns it, getSessionStats returns its statistics, addMessage
\* goes on to build the updates, updateSession goes on to write.
Continue(c, session) ==
  IF c.op = "getSession" THEN [c EXCEPT !.pc = "returned", !.ret = session]
  ELSE IF c.op = "getSessionStats" THEN [c EXCEPT !.pc = "returned", !.ret = sessionStats(session)]
  ELSE IF c.first = Null THEN [c EXCEPT !.pc = "update", !.first = session]
  ELSE [c EXCEPT !.pc = "write", !.session = session]

\* SessionManager.getSession after redis.getSession answered: the session
\* found, or createSession next.
AfterGet(c, found) ==
  IF found # Null THEN Continue(c, found) ELSE [c EXCEPT !.pc = "create"]

\* A call begins: every method starts with getSession, whose GET is issued.
Begin(p, op, sessionId, m, response) ==
  /\ calls[p].op = "idle"
  /\ IF concurrent THEN TRUE ELSE p = 1 /\ \A q \in Procs : calls[q].op = "idle"
  /\ \E x \in SessionOutcomes :
       LET got == redisGetSession(sessionId, [redisGet |-> x])
           c == [Idle EXCEPT !.op = op, !.sessionId = sessionId, !.message = m,
                             !.response = response, !.before = store]
       IN calls' = [calls EXCEPT ![p] = AfterGet(Logged(c, "GET", got.cmd), got.value)]
  /\ UNCHANGED <<store, connected, now, concurrent, workload, extracted, backend, platformToken,
                 token, req, classifyVars, serviceVars>>

GetSession(p) == \E sessionId \in SessionIds : Begin(p, "getSession", sessionId, <<>>, <<>>)

GetSessionStats(p) ==
  \E sessionId \in SessionIds : Begin(p, "getSessionStats", sessionId, <<>>, <<>>)

AddMessage(p) ==
  \E sessionId \in SessionIds : \E m \in workload.msgs : \E response \in Responses :
    /\ PersistedSession(sessionId) # Null =>
         PersistedSession(sessionId).messageCount < workload.max
    /\ Begin(p, "addMessage", sessionId, m, response)

\* createSession: the new session is built and written, and getSession
\* returns it.
CreateSession(p) ==
  /\ calls[p].pc = "create"
  /\ \E x \in SessionOutcomes :
       LET c == calls[p]
           session == createSession(c.sessionId)
           written == redisSetSession(c.sessionId, session, [redisSet |-> x])
       IN /\ store' = written.store
          /\ calls' = [calls EXCEPT ![p] =
               Continue([Logged(c, "SETEX", written.cmd) EXCEPT !.created = @ + 1], session)]
  /\ UNCHANGED <<connected, now, concurrent, workload, extracted, backend, platformToken,
                 token, req, classifyVars, serviceVars>>

\* addMessage after its getSession: the updates are built and
\* updateSession calls getSession again.
UpdateSession(p) ==
  /\ calls[p].pc = "update"
  /\ \E x \in SessionOutcomes :
       LET c == calls[p]
           updates == addMessageUpdates(c.first, c.message, c.response)
           got == redisGetSession(c.sessionId, [redisGet |-> x])
       IN calls' = [calls EXCEPT ![p] =
            AfterGet([Logged(c, "GET", got.cmd) EXCEPT !.updates = updates], got.value)]
  /\ UNCHANGED <<store, connected, now, concurrent, workload, extracted, backend, platformToken,
                 token, req, classifyVars, serviceVars>>

\* updateSession after its getSession: the merged session is written and
\* returned.
WriteSession(p) ==
  /\ calls[p].pc = "write"
  /\ \E x \in SessionOutcomes :
       LET c == calls[p]
           merged == updatedSession(c.session, c.updates)
           written == redisSetSession(c.sessionId, merged, [redisSet |-> x])
       IN /\ store' = written.store
          /\ calls' = [calls EXCEPT ![p] =
               [Logged(c, "SETEX", written.cmd) EXCEPT !.pc = "returned", !.ret = merged]]
  /\ UNCHANGED <<connected, now, concurrent, workload, extracted, backend, platformToken,
                 token, req, classifyVars, serviceVars>>

\* The caller has the returned value.
Return(p) ==
  /\ calls[p].pc = "returned"
  /\ calls' = [calls EXCEPT ![p] = Idle]
  /\ UNCHANGED <<store, connected, now, concurrent, workload, extracted, backend, platformToken,
                 token, req, classifyVars, serviceVars>>

NextSession ==
  \/ \E p \in Procs : GetSession(p)
  \/ \E p \in Procs : GetSessionStats(p)
  \/ \E p \in Procs : AddMessage(p)
  \/ \E p \in Procs : CreateSession(p)
  \/ \E p \in Procs : UpdateSession(p)
  \/ \E p \in Procs : WriteSession(p)
  \/ \E p \in Procs : Return(p)
  \/ Tick
  \/ RedisConnected
  \/ RedisDisconnected

\* Calls one after another.
InitSession ==
  /\ ClassifyIdle
  /\ ServiceIdle
  /\ ChatIdle
  /\ SessionIdle

SpecSession == InitSession /\ [][NextSession]_vars

\* Calls one after another, with live queries only.
InitSessionQueries ==
  /\ ClassifyIdle
  /\ ServiceIdle
  /\ ChatIdle
  /\ calls = [p \in Procs |-> Idle]
  /\ concurrent = FALSE
  /\ workload = QueryWorkload
  /\ extracted = Null

SpecSessionQueries == InitSessionQueries /\ [][NextSession]_vars

\* Calls one after another, with the messages that name an ADT system.
InitSessionTopics ==
  /\ ClassifyIdle
  /\ ServiceIdle
  /\ ChatIdle
  /\ calls = [p \in Procs |-> Idle]
  /\ concurrent = FALSE
  /\ workload = TopicWorkload
  /\ extracted = Null

SpecSessionTopics == InitSessionTopics /\ [][NextSession]_vars

\* A response of n characters.
Filled(n) == [i \in 1..n |-> IF i % 3 = 1 THEN "a" ELSE IF i % 3 = 2 THEN "b" ELSE "c"]

\* Responses shorter than, as long as and longer than the stored part.
HistoryResponses ==
  { <<"o","k">>, Filled(ResponseChars - 1), Filled(ResponseChars), Filled(ResponseChars + 1) }

\* addMessage called with a response of HistoryResponses.
RecordResponse(p) ==
  \E sessionId \in SessionIds : \E response \in HistoryResponses :
    /\ PersistedSession(sessionId) # Null =>
         PersistedSession(sessionId).messageCount < workload.max
    /\ Begin(p, "addMessage", sessionId, Hello, response)

\* Exchanges recorded one after another, with responses of every length.
NextHistory ==
  \/ \E p \in Procs : RecordResponse(p)
  \/ \E p \in Procs : CreateSession(p)
  \/ \E p \in Procs : UpdateSession(p)
  \/ \E p \in Procs : WriteSession(p)
  \/ \E p \in Procs : Return(p)
  \/ Tick
  \/ RedisConnected
  \/ RedisDisconnected

SpecHistory == InitSession /\ [][NextHistory]_vars

\* Calls that overlap, Redis connected throughout.
NextSessionRace ==
  \/ \E p \in Procs : GetSession(p)
  \/ \E p \in Procs : GetSessionStats(p)
  \/ \E p \in Procs : AddMessage(p)
  \/ \E p \in Procs : CreateSession(p)
  \/ \E p \in Procs : UpdateSession(p)
  \/ \E p \in Procs : WriteSession(p)
  \/ \E p \in Procs : Return(p)
  \/ Tick

\* The session after n more exchanges of a live query, as addMessage and
\* updateSession build it.
RECURSIVE Exchanged(_, _)
Exchanged(session, n) ==
  IF n = 0 THEN session
  ELSE Exchanged(updatedSession(session, addMessageUpdates(session, ShowProblems, <<"o","k">>)),
                 n - 1)

\* The keyspaces overlapping calls begin with: no session, or the session
\* of RecentQueries exchanges of a live query.
RaceStores ==
  { <<>>,
    SessionKey(<<"s","1">>) :>
      [value |-> JSONstringify(Exchanged(createSession(<<"s","1">>), RecentQueries)),
       expiresAt |-> SessionTtl] }

\* The messageCount of the session in a keyspace of RaceStores.
RaceCount(keyspace) == IF keyspace = <<>> THEN 0 ELSE RecentQueries

InitSessionRace ==
  /\ ClassifyIdle
  /\ ServiceIdle
  /\ backend = "bridge"
  /\ platformToken = FALSE
  /\ connected = TRUE
  /\ now = 0
  /\ store \in RaceStores
  /\ token = NoToken
  /\ req = NoRequest
  /\ calls = [p \in Procs |-> Idle]
  /\ concurrent = TRUE
  /\ workload = [RaceWorkload EXCEPT !.max = RaceCount(store) + MaxRaceMessages]
  /\ extracted = Null

SpecSessionRace == InitSessionRace /\ [][NextSessionRace]_vars

(***************************************************************************)
(* The token client under overlapping calls of                             *)
(* DynatraceAPI.ensureAuthenticated.  A call tests the held token and      *)
(* sends the POST in one step; the answer, with the assignment of both     *)
(* fields, is a later step.  The POST times out after 30 seconds, less     *)
(* than a step of the clock: the clock stands while an exchange is in      *)
(* flight.                                                                 *)
(***************************************************************************)
\* The expires_in values, in seconds, of the answers.
RaceLifetimes == {TickStep, 2 * TickStep}

\* The access_token of the answer to each call: every answer brings a
\* token of its own.
AccessTokenOf == [p \in Procs |-> IF p = 1 THEN "token-1" ELSE "token-2"]

\* The token the client holds when the calls begin: none, or one that has
\* just expired.
StaleToken == [accessToken |-> "stale", tokenExpiry |-> DateNow]

\* A call of ensureAuthenticated: where it stands, the token held and the
\* calls in flight when it began, the answer of its exchange, what it
\* returned (TRUE for true), the POSTs it sent and the time of its last
\* step.
TokenCallIdle ==
  [ op |-> "idle", pc |-> "idle", held |-> NoToken, inflight |-> {}, response |-> Null,
    ret |-> Null, log |-> <<>>, at |-> 0 ]

\* authenticate keeping the later of the held expiry and the new one.
storeTokenLaterExpiry(response) ==
  [ accessToken |-> response.access_token,
    tokenExpiry |-> IF token.tokenExpiry > DateNow + response.expires_in * 1000
                      THEN token.tokenExpiry
                      ELSE DateNow + response.expires_in * 1000 ]

\* authenticate: the two assignments after the awaited POST.
storeToken(response) ==
  [ accessToken |-> response.access_token,
    tokenExpiry |-> DateNow + response.expires_in * 1000 ]

\* ensureAuthenticated is called: true at once with a valid token, else
\* authenticate sends the POST.
EnsureAuthenticated(p) ==
  /\ calls[p].op = "idle"
  /\ LET c == [TokenCallIdle EXCEPT !.op = "ensureAuthenticated", !.held = token, !.at = now,
                                    !.inflight = {q \in Procs : calls[q].pc = "exchange"}]
     IN calls' = [calls EXCEPT ![p] =
          IF token.accessToken = "" \/ DateNow >= token.tokenExpiry
            THEN [c EXCEPT !.pc = "exchange", !.log = <<[cmd |-> "POST", res |-> "sent"]>>]
            ELSE [c EXCEPT !.pc = "returned", !.ret = TRUE]]
  /\ UNCHANGED <<store, connected, now, concurrent, workload, extracted, backend, platformToken,
                 token, req, classifyVars, serviceVars>>

\* The POST is answered: both fields are assigned and true is returned.
ExchangeAnswered(p) ==
  /\ calls[p].pc = "exchange"
  /\ \E lifetime \in RaceLifetimes :
       LET response == [access_token |-> AccessTokenOf[p], expires_in |-> lifetime] IN
       /\ token' = storeToken(response)
       /\ calls' = [calls EXCEPT ![p] =
            [@ EXCEPT !.pc = "returned", !.ret = TRUE, !.response = response, !.at = now,
                      !.log = <<[cmd |-> "POST", res |-> "ok"]>>]]
  /\ UNCHANGED <<store, connected, now, concurrent, workload, extracted, backend, platformToken,
                 req, classifyVars, serviceVars>>

\* The POST fails: the fields are left alone and the error object is
\* returned.
ExchangeFailed(p) ==
  /\ calls[p].pc = "exchange"
  /\ calls' = [calls EXCEPT ![p] =
       [@ EXCEPT !.pc = "returned", !.ret = FALSE, !.at = now,
                 !.log = <<[cmd |-> "POST", res |-> "fail"]>>]]
  /\ UNCHANGED <<store, connected, now, concurrent, workload, extracted, backend, platformToken,
                 token, req, classifyVars, serviceVars>>

\* Time passes between exchanges.
TokenTick ==
  /\ \A p \in Procs : calls[p].pc # "exchange"
  /\ Tick

NextTokenRace ==
  \/ \E p \in Procs : EnsureAuthenticated(p)
  \/ \E p \in Procs : ExchangeAnswered(p)
  \/ \E p \in Procs : ExchangeFailed(p)
  \/ TokenTick

InitTokenRace ==
  /\ ClassifyIdle
  /\ ServiceIdle
  /\ backend = "api"
  /\ platformToken = FALSE
  /\ connected = TRUE
  /\ now \in {0, TickStep}
  /\ store = <<>>
  /\ token \in {NoToken, StaleToken}
  /\ req = NoRequest
  /\ calls = [p \in Procs |-> TokenCallIdle]
  /\ concurrent = TRUE
  /\ workload = MixedWorkload
  /\ extracted = Null

SpecTokenRace == InitTokenRace /\ [][NextTokenRace]_vars

(***************************************************************************)
(* Messages extractADTContext is run on: every sequence of at most         *)
(* MaxWords phrases of UrgencyVocab.                                       *)
(***************************************************************************)
UrgencyVocab ==
  { <<"c","r","i","t","i","c","a","l">>,
    <<"d","o","w","n">>,
    <<"u","r","g","e","n","t">>,
    <<"i","s","s","u","e">>,
    <<"U","r","g","e","n","t">>,
    <<"C","R","I","T","I","C","A","L">>,
    <<"o","m","s">>,
    <<"m","u","l","e","s","o","f","t">>,
    <<"s","l","o","w">> }

UrgencyPhrases == UNION { [1..n -> UrgencyVocab] : n \in 1..MaxWords }

UrgencyMsgs == { JoinWords(ws) : ws \in UrgencyPhrases }

InitExtract ==
  /\ message \in UrgencyMsgs
  /\ requestType = "none"
  /\ ServiceIdle
  /\ ChatIdle
  /\ SessionIdle

\* addMessage's call of extractADTContext.
ExtractADTContext ==
  /\ extracted = Null
  /\ extracted' = extractADTContext(message)
  /\ UNCHANGED <<message, requestType, chatVars, calls, concurrent, workload, serviceVars>>

NextExtract == ExtractADTContext

SpecExtract == InitExtract /\ [][NextExtract]_vars

(***************************************************************************)
(* The cache service: calls of RedisMiddleware methods one after another,  *)
(* the client's events, the clock, and another writer of the keyspace.     *)
(* rcall.last is the call or event that came last: the flag and the        *)
(* keyspace it found, the commands it issued and what it gave.             *)
(***************************************************************************)
ProblemsPattern == <<"d","t",":","q","u","e","r","y",":","*">>
AnyPattern == <<"*">>
McpPattern == <<"m","c","p",":","*">>

\* The keys, patterns, values and ttl arguments of the calls.
RedisKeys == {queryKeyOf[ShowProblems], SessionKey(<<"s","1">>)}
RedisPatterns == {ProblemsPattern, AnyPattern, McpPattern}
RedisValues == {Obj("problems", <<Txt("api: problems")>>, TRUE)}
Ttls == {0, TickStep}

RedisOutcomes == {"ok", "fail"}

\* The part of the function f that concerns key.
Only(f, key) == [k \in DOMAIN f \cap {key} |-> f[k]]

\* The record of a call of op at the current time: what the call gave,
\* the keyspace before it (for get and set, the entry of the key alone) and
\* what was last written under its key.
Called(op, key, ttl, r) ==
  [ op |-> op, key |-> key, ttl |-> ttl, at |-> now, flag |-> connected,
    threw |-> r.threw, value |-> r.value, cmd |-> r.cmd, cmd2 |-> r.cmd2,
    before |-> IF op \in {"del", "delPattern"} THEN store ELSE Only(store, key),
    known |-> Only(rcall.writes, key) ]

RedisCallIdle ==
  /\ client = "null"
  /\ rcall = NoCall
  /\ route = "idle"

\* connect(): creates the client and registers the handlers; when
\* client.connect() resolves the 'connect' event has set the flag, when it
\* rejects the catch clears it.
Connect ==
  /\ client # "open"
  /\ \E outcome \in RedisOutcomes :
       /\ connected' = (outcome = "ok")
       /\ rcall' = [rcall EXCEPT !.last =
            Called("connect", <<>>, 0,
                   [threw |-> FALSE, value |-> Bool(outcome = "ok"), cmd |-> outcome, cmd2 |-> "none"])]
  /\ client' = "open"
  /\ UNCHANGED <<now, store, route, backend, platformToken, token, req, classifyVars, sessionVars>>

\* disconnect(): nothing without a client; else client.disconnect() and,
\* once it resolved, the flag cleared.  On a client already closed the
\* call resolves or rejects.
Disconnect ==
  /\ \E outcome \in (IF client = "closed" THEN RedisOutcomes ELSE {"ok"}) :
       /\ connected' = IF client = "null" \/ outcome = "fail" THEN connected ELSE FALSE
       /\ rcall' = [rcall EXCEPT !.last =
            Called("disconnect", <<>>, 0,
                   [threw |-> outcome = "fail", value |-> Null,
                    cmd |-> IF client = "null" THEN "none" ELSE outcome, cmd2 |-> "none"])]
  /\ client' = IF client = "null" THEN "null" ELSE "closed"
  /\ UNCHANGED <<now, store, route, backend, platformToken, token, req, classifyVars, sessionVars>>

\* The client's 'connect' event: the socket is connected again.
ClientConnectEvent ==
  /\ client = "open"
  /\ ~connected
  /\ connected' = TRUE
  /\ rcall' = [rcall EXCEPT !.last =
       Called("connect event", <<>>, 0,
              [threw |-> FALSE, value |-> Null, cmd |-> "none", cmd2 |-> "none"])]
  /\ UNCHANGED <<client, now, store, route, backend, platformToken, token, req, classifyVars, sessionVars>>

\* The client's 'error' event.
ClientErrorEvent ==
  /\ client = "open"
  /\ connected' = FALSE
  /\ rcall' = [rcall EXCEPT !.last =
       Called("error event", <<>>, 0,
              [threw |-> FALSE, value |-> Null, cmd |-> "none", cmd2 |-> "none"])]
  /\ UNCHANGED <<client, now, store, route, backend, platformToken, token, req, classifyVars, sessionVars>>

RedisGet ==
  \E key \in RedisKeys : \E outcome \in RedisOutcomes :
    LET r == get(key, [redisGet |-> outcome]) IN
    /\ rcall' = [rcall EXCEPT !.last = Called("get", key, 0, r @@ [cmd2 |-> "none"])]
    /\ UNCHANGED <<client, connected, now, store, route, backend, platformToken, token, req,
                   classifyVars, sessionVars>>

RedisSet ==
  \E key \in RedisKeys : \E value \in RedisValues : \E ttl \in Ttls : \E outcome \in RedisOutcomes :
    LET r == set(key, value, ttl, [redisSet |-> outcome]) IN
    /\ store' = r.store
    /\ rcall' = [ last |-> Called("set", key, ttl, [r EXCEPT !.value = Bool(r.value)] @@ [cmd2 |-> "none"]),
                  writes |-> IF r.cmd = "ok"
                               THEN (key :> [at |-> now, ttl |-> ttl, value |-> value]) @@ rcall.writes
                               ELSE rcall.writes ]
    /\ UNCHANGED <<client, connected, now, route, backend, platformToken, token, req,
                   classifyVars, sessionVars>>

RedisDel ==
  \E key \in RedisKeys : \E outcome \in RedisOutcomes :
    LET r == del(key, [redisDel |-> outcome]) IN
    /\ store' = r.store
    /\ rcall' = [ last |-> Called("del", key, 0, [r EXCEPT !.value = Bool(r.value)] @@ [cmd2 |-> "none"]),
                  writes |-> IF r.cmd = "ok"
                               THEN [k \in DOMAIN rcall.writes \ {key} |-> rcall.writes[k]]
                               ELSE rcall.writes ]
    /\ UNCHANGED <<client, connected, now, route, backend, platformToken, token, req,
                   classifyVars, sessionVars>>

RedisDelPattern ==
  \E pattern \in RedisPatterns : \E outcome \in [redisKeys : RedisOutcomes, redisDel : RedisOutcomes] :
    LET r == delPattern(pattern, outcome) IN
    /\ store' = r.store
    /\ rcall' = [ last |-> Called("delPattern", pattern, 0, [r EXCEPT !.value = Bool(r.value)])
                            @@ [after |-> r.store],
                  writes |-> [k \in DOMAIN rcall.writes \ (DOMAIN store \ DOMAIN r.store)
                                |-> rcall.writes[k]] ]
    /\ UNCHANGED <<client, connected, now, route, backend, platformToken, token, req,
                   classifyVars, sessionVars>>

RedisPing ==
  \E outcome \in RedisOutcomes :
    LET r == ping([redisPing |-> outcome]) IN
    /\ rcall' = [rcall EXCEPT !.last = Called("ping", <<>>, 0, [r EXCEPT !.value = Bool(r.value)] @@ [cmd2 |-> "none"])]
    /\ UNCHANGED <<client, connected, now, store, route, backend, platformToken, token, req,
                   classifyVars, sessionVars>>

\* Another client of the Redis server stores a string that is not JSON
\* text under one of the keys.
ForeignWrite ==
  \E key \in RedisKeys :
    /\ store' = (key :> [value |-> NotJson, expiresAt |-> ConfigTtl]) @@ store
    /\ rcall' = [rcall EXCEPT !.writes = [k \in DOMAIN rcall.writes \ {key} |-> rcall.writes[k]]]
    /\ UNCHANGED <<client, connected, now, route, backend, platformToken, token, req,
                   classifyVars, sessionVars>>

NextRedis ==
  \/ Connect
  \/ Disconnect
  \/ ClientConnectEvent
  \/ ClientErrorEvent
  \/ RedisGet
  \/ RedisSet
  \/ RedisDel
  \/ RedisDelPattern
  \/ RedisPing
  \/ ForeignWrite
  \/ Tick

\* The middleware after construction: no client, the flag false.
InitRedis ==
  /\ ClassifyIdle
  /\ backend = "bridge"
  /\ platformToken = FALSE
  /\ connected = FALSE
  /\ now = 0
  /\ store = <<>>
  /\ token = NoToken
  /\ req = NoRequest
  /\ SessionIdle
  /\ RedisCallIdle

SpecRedis == InitRedis /\ [][NextRedis]_vars

(***************************************************************************)
(* Key derivation: generateCacheKey of RedisMiddleware and generateKey of  *)
(* MCPCacheWrapper, called with a category and a parameter object (its     *)
(* <<key, value>> pairs in insertion order) or a scalar.                   *)
(***************************************************************************)
\* Most pairs in a parameter object handed to generateCacheKey.
MaxParams == 2

Categories == {DtQueryType, <<"g","e","t","P","r","o","b","l","e","m","s">>, <<"s","e","s","s","i","o","n">>}
ParamKeys == {<<"a">>, <<"b">>, QueryParam}
WrapperParamKeys == {<<"a">>, <<"b">>}
ParamValues == {<<"1">>, <<"2">>}

\* The objects with at most n pairs, their keys from ks and all different.
Objects(ks, n) ==
  { [kind |-> "object", pairs |-> ps] :
      ps \in { qs \in UNION { [1..m -> ks \X ParamValues] : m \in 0..n } :
                 \A i, j \in DOMAIN qs : i # j => qs[i][1] # qs[j][1] } }

Scalars == { [kind |-> "scalar", value |-> v] : v \in ParamValues }

\* A parameter value that holds the separator of the key parts.
ColonParams == { [kind |-> "object", pairs |-> << <<<<"a">>, <<"1",":","b",":","2">>>> >>] }

KeyParams == Objects(ParamKeys, MaxParams) \cup Scalars \cup ColonParams
WrapperParams == Objects(WrapperParamKeys, Cardinality(WrapperParamKeys)) \cup Scalars

Quoted(s) == <<"\"">> \o s \o <<"\"">>

\* JSON.stringify(params): the pairs of an object in insertion order.
JSONtext(params) ==
  IF params.kind = "object"
    THEN <<"{">> \o join([i \in 1..Len(params.pairs) |->
                             Quoted(params.pairs[i][1]) \o <<":">> \o Quoted(params.pairs[i][2])],
                          <<",">>) \o <<"}">>
    ELSE Quoted(params.value)

\* crypto.createHash('sha256').update(text).digest('hex').substring(0, 12)
\* of the JSON texts of WrapperParams.
sha256Hex12 ==
  (<<"{","}">> :> <<"4","4","1","3","6","f","a","3","5","5","b","3">>) @@
  (<<"{","\"","a","\"",":","\"","1","\"","}">> :> <<"9","a","f","e","b","0","f","2","b","2","0","3">>) @@
  (<<"{","\"","a","\"",":","\"","2","\"","}">> :> <<"d","1","c","5","b","4","5","e","2","3","6","f">>) @@
  (<<"{","\"","b","\"",":","\"","1","\"","}">> :> <<"0","f","b","2","c","8","6","a","6","3","2","b">>) @@
  (<<"{","\"","b","\"",":","\"","2","\"","}">> :> <<"9","2","6","8","a","0","d","f","d","e","6","a">>) @@
  (<<"{","\"","a","\"",":","\"","1","\"",",","\"","b","\"",":","\"","1","\"","}">> :> <<"4","0","2","3","9","5","4","4","d","c","0","3">>) @@
  (<<"{","\"","a","\"",":","\"","1","\"",",","\"","b","\"",":","\"","2","\"","}">> :> <<"2","1","f","7","6","d","f","b","f","e","6","d">>) @@
  (<<"{","\"","a","\"",":","\"","2","\"",",","\"","b","\"",":","\"","1","\"","}">> :> <<"f","7","a","8","3","7","d","c","9","b","6","0">>) @@
  (<<"{","\"","a","\"",":","\"","2","\"",",","\"","b","\"",":","\"","2","\"","}">> :> <<"d","9","d","7","6","1","d","8","5","3","5","9">>) @@
  (<<"{","\"","b","\"",":","\"","1","\"",",","\"","a","\"",":","\"","1","\"","}">> :> <<"0","5","4","d","d","3","9","e","e","a","9","4">>) @@
  (<<"{","\"","b","\"",":","\"","1","\"",",","\"","a","\"",":","\"","2","\"","}">> :> <<"5","a","9","2","1","c","7","f","a","a","b","1">>) @@
  (<<"{","\"","b","\"",":","\"","2","\"",",","\"","a","\"",":","\"","1","\"","}">> :> <<"d","8","5","b","5","3","8","8","3","9","7","b">>) @@
  (<<"{","\"","b","\"",":","\"","2","\"",",","\"","a","\"",":","\"","2","\"","}">> :> <<"c","3","5","c","0","b","2","b","9","3","c","b">>) @@
  (<<"\"","1","\"">> :> <<"3","9","1","5","5","2","c","0","9","9","c","1">>) @@
  (<<"\"","2","\"">> :> <<"c","c","1","1","3","1","0","c","4","5","6","c">>)

\* MCPCacheWrapper.generateKey.
generateKey(functionName, params) ==
  <<"m","c","p",":">> \o functionName \o <<":">> \o sha256Hex12[JSONtext(params)]

KeyCalled(op, type, params, value) ==
  [op |-> op, type |-> type, params |-> params, value |-> value]

GenerateCacheKey ==
  \E type \in Categories : \E params \in KeyParams :
    /\ rcall' = [rcall EXCEPT !.last =
         KeyCalled("generateCacheKey", type, params, generateCacheKey(type, params))]
    /\ UNCHANGED <<client, connected, now, store, route, backend, platformToken, token, req,
                   classifyVars, sessionVars>>

GenerateKey ==
  \E functionName \in Categories : \E params \in WrapperParams :
    /\ rcall' = [rcall EXCEPT !.last =
         KeyCalled("generateKey", functionName, params, generateKey(functionName, params))]
    /\ UNCHANGED <<client, connected, now, store, route, backend, platformToken, token, req,
                   classifyVars, sessionVars>>

NextKeys ==
  \/ GenerateCacheKey
  \/ GenerateKey

SpecKeys == InitRedis /\ [][NextKeys]_vars

(***************************************************************************)
(* MCPCacheWrapper.withCache.  client is "null" for a wrapper that is not  *)
(* enabled or has no Redis client, "open" for one that has.  A call is     *)
(* one step; rcall.last keeps what it was given, how often it invoked the  *)
(* wrapped function and what it settled to.                                *)
(***************************************************************************)
\* this.defaultTTL, in seconds, with REDIS_TTL_SECONDS unset.
DefaultTTL == 300

\* The ttl arguments: 0 stands for the absent one.
WrapperTtls == {0, TickStep}

\* The inputs of the wrapped calls.
WrappedFunction == <<"l","i","s","t","_","p","r","o","b","l","e","m","s">>
WrappedParams ==
  { [kind |-> "object", pairs |-> <<>>],
    [kind |-> "object", pairs |-> << <<<<"a">>, <<"1">>>> >>] }

\* What the wrapped function returns.
WrappedResult == Obj("problems", <<Txt("mcp: problems")>>, TRUE)

\* What the Redis commands and the invocations of the wrapped function
\* may do: fn1 is the first invocation, fn2 the second.
WrapperOutcomes ==
  [get : {"ok", "fail"}, setex : {"ok", "fail"}, fn1 : {"ok", "fail"}, fn2 : {"ok", "fail"}]

\* originalFunction(params) awaited and returned: invocation number n.
Invoked(n, outcome, keyspace, hit) ==
  [ invocations |-> n, threw |-> outcome = "fail",
    value |-> IF outcome = "fail" THEN Null ELSE WrappedResult,
    store |-> keyspace, hit |-> hit ]

\* MCPCacheWrapper.withCache.
withCache(functionName, params, ttl, o) ==
  LET cacheKey == generateKey(functionName, params)
      cacheTTL == IF ttl # 0 THEN ttl ELSE DefaultTTL
  IN
  IF client = "null" THEN Invoked(1, o.fn1, store, FALSE)
  ELSE IF o.get = "fail" THEN Invoked(1, o.fn1, store, FALSE)
  ELSE IF Stored(cacheKey) # Null
    THEN [invocations |-> 0, threw |-> FALSE, value |-> JSONparse(Stored(cacheKey)),
          store |-> store, hit |-> TRUE]
  ELSE IF o.fn1 = "fail" THEN Invoked(2, o.fn2, store, FALSE)
  ELSE IF o.setex = "fail" THEN Invoked(2, o.fn2, store, FALSE)
  ELSE [invocations |-> 1, threw |-> FALSE, value |-> WrappedResult, hit |-> FALSE,
        store |-> (cacheKey :> [value |-> JSONstringify(WrappedResult),
                                expiresAt |-> now + cacheTTL]) @@ store]

WithCache ==
  \E params \in WrappedParams : \E ttl \in WrapperTtls : \E o \in WrapperOutcomes :
    LET r == withCache(WrappedFunction, params, ttl, o) IN
    /\ store' = r.store
    /\ rcall' = [rcall EXCEPT !.last =
         [op |-> "withCache", key |-> generateKey(WrappedFunction, params), ttl |-> ttl,
          at |-> now, outcomes |-> o, enabled |-> client # "null", hit |-> r.hit,
          invocations |-> r.invocations, threw |-> r.threw, value |-> r.value]]
    /\ UNCHANGED <<client, connected, now, route, backend, platformToken, token, req,
                   classifyVars, sessionVars>>

NextWrapper ==
  \/ WithCache
  \/ Tick

InitWrapper ==
  /\ ClassifyIdle
  /\ backend = "bridge"
  /\ platformToken = FALSE
  /\ connected = FALSE
  /\ now = 0
  /\ store = <<>>
  /\ token = NoToken
  /\ req = NoRequest
  /\ SessionIdle
  /\ client \in {"null", "open"}
  /\ rcall = NoCall
  /\ route = "idle"

SpecWrapper == InitWrapper /\ [][NextWrapper]_vars

(***************************************************************************)
(* POST /chat: the message is checked, handleMessage is awaited, the        *)
(* exchange is recorded in the session when Redis is connected, and the    *)
(* response is sent.  Requests are handled one after another.  route is    *)
(* "idle", "rejected" (status 400), "failed" (handleMessage rejected),     *)
(* "handled" (handleMessage settled) or "skipped" (addMessage not called). *)
(***************************************************************************)
RouteSession == <<"s","1">>
\* The messages posted: a live query, a question for the model, a greeting.
RouteMsgs == {ShowProblems, ExplainTracing, Hello}

\* The message is missing or not a string: status 400.
PostChatRejected ==
  /\ route = "idle"
  /\ req = NoRequest
  /\ route' = "rejected"
  /\ UNCHANGED <<client, rcall, chatVars, classifyVars, sessionVars>>

\* The message is a string: handleMessage is called and awaited; req keeps
\* the message and what the call settled to.  Requests are taken while the
\* session has recorded less than MaxExchanges.
PostChat ==
  /\ route = "idle"
  /\ req = NoRequest
  /\ PersistedSession(RouteSession) # Null =>
       PersistedSession(RouteSession).messageCount < MaxExchanges
  /\ \E m \in RouteMsgs : \E o \in Outcomes :
    LET r == handleMessage(m, o) IN
    /\ req' = [NoRequest EXCEPT !.msg = m, !.at = now, !.threw = r.threw, !.text = r.text]
    /\ store' = r.store
    /\ token' = r.token
    /\ route' = IF r.threw THEN "failed" ELSE "handled"
    /\ UNCHANGED <<client, rcall, backend, platformToken, connected, now, classifyVars, sessionVars>>

\* this.redis.connected: addMessage is called with the message and the
\* response.
RouteAddMessage ==
  /\ route = "handled"
  /\ connected
  /\ Begin(1, "addMessage", RouteSession, req.msg, req.text)

\* Redis is not connected: addMessage is not called.
RouteSkip ==
  /\ route = "handled"
  /\ ~connected
  /\ route' = "skipped"
  /\ UNCHANGED <<client, rcall, chatVars, classifyVars, sessionVars>>

\* The response is about to be sent: the exchange was recorded or skipped.
Responding ==
  \/ route = "handled" /\ calls[1].pc = "returned"
  \/ route = "skipped"

\* res.json, or the status 400 or 500.
Respond ==
  /\ Responding \/ route \in {"rejected", "failed"}
  /\ route' = "idle"
  /\ req' = NoRequest
  /\ calls' = [calls EXCEPT ![1] = Idle]
  /\ UNCHANGED <<client, rcall, backend, platformToken, connected, now, store, token,
                 concurrent, workload, extracted, classifyVars>>

NextRoute ==
  \/ PostChatRejected
  \/ PostChat
  \/ RouteAddMessage
  \/ RouteSkip
  \/ CreateSession(1)
  \/ UpdateSession(1)
  \/ WriteSession(1)
  \/ Respond
  \/ RedisConnected
  \/ RedisDisconnected

SpecRoute == InitAny /\ [][NextRoute]_vars

(***************************************************************************)
(* Claims about the classifier.                                            *)
(***************************************************************************)
\* The live-query keywords the specification lists for rule 1.
LiveQueryKeywords ==
  { <<"d","q","l">>,
    <<"f","e","t","c","h">>,
    <<"p","r","o","b","l","e","m","s">>,
    <<"e","n","t","i","t","i","e","s">>,
    <<"l","o","g","s">>,
    <<"m","e","t","r","i","c","s">>,
    <<"v","u","l","n","e","r","a","b","i","l","i","t","i","e","s">> }

\* The specification's rule table: (intent, markers matched anywhere,
\* markers matched only at the start), in priority order.
RuleTable ==
  << [intent |-> "dynatrace_query", anywhere |-> DynatraceKeywords, atStart |-> {}],
     [intent |-> "ollama_chat", anywhere |-> ChatMarkers, atStart |-> {CanYou}],
     [intent |-> "knowledge_query", anywhere |-> KnowledgeMarkers, atStart |-> {}],
     [intent |-> "general_help", anywhere |-> HelpMarkers, atStart |-> {}] >>

RuleMatches(rule, m) ==
  LET msg == toLowerCase(m) IN
  \/ \E k \in rule.anywhere : includes(msg, k)
  \/ \E k \in rule.atStart : startsWith(msg, k)

\* The intent of the first rule of the table that matches, Help when none does.
FirstMatch(m) ==
  LET hits == { i \in 1..Len(RuleTable) : RuleMatches(RuleTable[i], m) } IN
  IF hits = {} THEN "general_help"
  ELSE RuleTable[CHOOSE i \in hits : \A j \in hits : i <= j].intent

\* C5: a classified message whose lower-cased text contains a LiveQuery
\* keyword is classified as a LiveQuery (dynatrace_query), whatever chat,
\* knowledge or help markers it also contains; the example sentence
\* "can you explain the problems list" is one.
C5_ClassifierPriority ==
  requestType # "none" =>
    /\ (\E k \in LiveQueryKeywords : includes(toLowerCase(message), k))
         => requestType = "dynatrace_query"
    /\ message = ExampleLive => requestType = "dynatrace_query"

\* C5 witness: the example sentence, which starts with "can you" and contains
\* "explain" and "problems", has been classified as a LiveQuery.
C5_Witness ==
  /\ message = ExampleLive
  /\ startsWith(toLowerCase(message), CanYou)
  /\ requestType = "dynatrace_query"

\* C6: classification is total and first-match in the order LiveQuery,
\* ModelChat, KnowledgeQuery, Help: the result is exactly one of the four
\* intents, the one of the first rule the lower-cased text matches (Help when
\* none matches); a message without a LiveQuery keyword that contains both
\* "explain" and "troubleshoot" is a ModelChat, and "can you" makes a ModelChat
\* only at the start of the message.
C6_FirstMatchOrder ==
  requestType # "none" =>
    LET msg == toLowerCase(message) IN
    /\ requestType \in Intents
    /\ requestType = FirstMatch(message)
    /\ ( /\ ~ \E k \in DynatraceKeywords : includes(msg, k)
         /\ includes(msg, <<"e","x","p","l","a","i","n">>)
         /\ includes(msg, <<"t","r","o","u","b","l","e","s","h","o","o","t">>) )
         => requestType = "ollama_chat"
    /\ ( /\ includes(msg, CanYou)
         /\ ~ startsWith(msg, CanYou)
         /\ ~ \E k \in ChatMarkers : includes(msg, k) )
         => requestType # "ollama_chat"

\* C6 witness: "explain how to troubleshoot" (a chat, a help and a knowledge
\* marker, no LiveQuery keyword) has been classified as a ModelChat.
C6_Witness ==
  /\ message = ExampleChat
  /\ includes(toLowerCase(message), <<"t","r","o","u","b","l","e","s","h","o","o","t">>)
  /\ requestType = "ollama_chat"


(***************************************************************************)
(* Claims about the chat flow.  They read the settled request req, the     *)
(* keyspace and the token as handleMessage left them.                      *)
(***************************************************************************)
\* A call of handleMessage has settled and is not yet delivered.
Settled == req # NoRequest

\* The settled call was for a string classified as a live query.
LiveQuery ==
  /\ Settled
  /\ req.msg \in ChatStrings
  /\ requestTypeOf[req.msg] = "dynatrace_query"

\* The positions of the provenance trailers in a response.
Sources(text) == {i \in DOMAIN text : text[i].t = "source"}

\* The response ends with the provenance trailer of source.
TaggedWith(text, source) == text # <<>> /\ text[Len(text)] = Src(source)

\* The response without its last segment.
Body(text) == SubSeq(text, 1, Len(text) - 1)

LiveProvenance == "dynatrace-working-api"
ModelProvenance == "phi3-general"

\* The live API failed the call: its first request failed and no request
\* made in its place succeeded.
LiveCallFailed == req.log.live1 = "fail" /\ req.log.live2 # "ok"

\* Every live API request the call made succeeded, and it made one.
LiveCallSucceeded ==
  /\ req.log.auth # "fail"
  /\ req.log.live1 \in {"ok", "empty"}
  /\ req.log.live2 # "fail"

\* C1: for every message string and whatever the cache, the token
\* endpoint, the live API and the model backend answer or fail with, the
\* call of handleMessage resolves to a non-empty string; it never rejects.
C1_AlwaysAString ==
  (Settled /\ req.msg \in ChatStrings) => (~req.threw /\ req.text # <<>>)

\* C1's case: a live query for which the cache read, the live request and
\* both model calls failed, answered all the same.
C1_Witness ==
  /\ LiveQuery
  /\ req.log.redisGet = "fail"
  /\ LiveCallFailed
  /\ req.log.chat = "fail"
  /\ ~req.threw
  /\ req.text # <<>>

\* C2: a live query with no cache entry whose live request fails while no
\* model call fails is answered with the model's answer under the model's
\* provenance.
C2_FallbackToModel ==
  (/\ LiveQuery
   /\ req.entry = NoEntry
   /\ LiveCallFailed
   /\ req.log.enrich # "fail"
   /\ req.log.chat # "fail")
  => /\ ~req.threw
     /\ TaggedWith(req.text, ModelProvenance)
     /\ req.log.chat = "ok"

\* C3: a live query whose key has a live entry that the cache read returns
\* is answered with that entry's payload under the provenance cache, with
\* no token exchange, no live request, no model call and no cache write:
\* the keyspace and the token are as they were.
C3_CacheFirstRead ==
  (LiveQuery /\ req.entry # NoEntry /\ req.log.redisGet = "ok")
  => /\ ~req.threw
     /\ req.text = JSONparse(req.entry.value).message \o <<Src("cache")>>
     /\ req.log = [EmptyLog EXCEPT !.redisGet = "ok"]
     /\ Entry(queryKeyOf[req.msg]) = req.entry
     /\ token = req.held

\* C3's case: a live query answered from its cache entry, no live request
\* made.
C3_Witness ==
  /\ LiveQuery
  /\ req.entry # NoEntry
  /\ req.log.redisGet = "ok"
  /\ TaggedWith(req.text, "cache")
  /\ req.log.live1 = "none"

\* C4: on a cache miss whose live call succeeds, with the cache accepting
\* the write, the entry under the message's key when the call settles holds
\* the returned result (the analysis included when there is one) and expires
\* 300 seconds after the call; every entry in the keyspace expires within
\* 300 seconds; and a repeat of the message that reads a live entry is
\* answered from it before its expiry without a live request.
C4_CacheWriteBack ==
  /\ (/\ LiveQuery
      /\ req.log.redisGet = "ok"
      /\ req.entry = NoEntry
      /\ LiveCallSucceeded
      /\ req.log.redisSet = "ok")
     => /\ queryKeyOf[req.msg] \in DOMAIN store
        /\ store[queryKeyOf[req.msg]].expiresAt = req.at + 300
        /\ TaggedWith(req.text, LiveProvenance)
        /\ JSONparse(store[queryKeyOf[req.msg]].value).message = Body(req.text)
        /\ (req.log.enrich = "ok" <=> Txt("AI Analysis") \in {req.text[i] : i \in DOMAIN req.text})
  /\ \A k \in DOMAIN store : store[k].expiresAt <= now + 300
  /\ (LiveQuery /\ req.entry # NoEntry /\ req.log.redisGet = "ok")
     => /\ req.at < req.entry.expiresAt
        /\ req.log.live1 = "none" /\ req.log.live2 = "none"
        /\ Body(req.text) = JSONparse(req.entry.value).message

\* C4's case: the message asked again later, inside the 300 seconds of the
\* entry written by the first call, and answered from that entry.
C4_Witness ==
  /\ LiveQuery
  /\ req.at > 0
  /\ req.entry # NoEntry
  /\ req.entry.expiresAt = 300
  /\ TaggedWith(req.text, "cache")
  /\ Txt("AI Analysis") \in {req.text[i] : i \in DOMAIN req.text}


\* C7: a chat call that fails is answered with the knowledge document of
\* the message under the provenance knowledge; knowledge queries and help
\* requests always resolve, under their own provenance; a message matching
\* no knowledge keyword gets the general help document.
C7_ChatFallsBackToKnowledge ==
  /\ (Settled /\ req.msg \in ChatStrings /\ req.log.chat = "fail")
     => /\ ~req.threw
        /\ req.log.kb = "ok"
        /\ req.text = knowledgeOf[req.msg].value.message \o <<Src("knowledge")>>
  /\ (Settled /\ req.msg \in ChatStrings /\ requestTypeOf[req.msg] = "knowledge_query")
     => /\ ~req.threw
        /\ req.text = knowledgeOf[req.msg].value.message \o <<Src("knowledge")>>
  /\ (Settled /\ req.msg \in ChatStrings /\ requestTypeOf[req.msg] = "general_help")
     => /\ ~req.threw
        /\ Len(req.text) = 2
        /\ TaggedWith(req.text, "help")
  /\ (Settled /\ req.msg = ExplainTracing /\ req.log.chat = "fail")
     => req.text = <<Txt("kb: general help"), Src("knowledge")>>

\* C7's case: a chat message with no knowledge keyword, the model backend
\* failing, answered with the default document.
C7_Witness ==
  /\ Settled
  /\ req.msg = ExplainTracing
  /\ requestTypeOf[req.msg] = "ollama_chat"
  /\ req.log.chat = "fail"
  /\ TaggedWith(req.text, "knowledge")

\* The messages of the live results that carry no realData flag.
NotRealData ==
  { Txt("api: call failed"), Txt("api: authentication status"),
    Txt("api: platform token ready"), Txt("working: authentication failed") }

\* C8: when the live result is real data and the analysis call fails, the
\* response is the live result alone under the live provenance, the cache
\* write is still made with that result, and neither the chat fallback nor
\* the knowledge base is called; when the live result is not real data, no
\* analysis call is made.
C8_EnrichmentFailureAbsorbed ==
  /\ (LiveQuery /\ req.log.enrich = "fail")
     => /\ ~req.threw
        /\ Len(req.text) = 2
        /\ req.text[1].t = "text"
        /\ req.text[1] \notin NotRealData
        /\ TaggedWith(req.text, LiveProvenance)
        /\ req.log.chat = "none" /\ req.log.kb = "none"
        /\ req.log.redisSet # "none"
        /\ req.log.redisSet = "ok"
           => /\ queryKeyOf[req.msg] \in DOMAIN store
              /\ JSONparse(store[queryKeyOf[req.msg]].value).message = Body(req.text)
              /\ JSONparse(store[queryKeyOf[req.msg]].value).realData
  /\ (LiveQuery /\ TaggedWith(req.text, LiveProvenance) /\ req.text[1] \in NotRealData)
     => /\ req.log.enrich = "none"
        /\ Len(req.text) = 2

\* C8's case: live data fetched, the analysis call failed, the live result
\* returned and cached.
C8_Witness ==
  /\ LiveQuery
  /\ LiveCallSucceeded
  /\ req.log.enrich = "fail"
  /\ req.log.redisSet = "ok"
  /\ TaggedWith(req.text, LiveProvenance)

C10_CredentialReuse ==
  (/\ LiveQuery
   /\ req.held.accessToken # ""
   /\ req.at * 1000 < req.held.tokenExpiry)
  => /\ req.log.auth = "none"
     /\ token = req.held


(***************************************************************************)
(* Claims about the token held by the API client.                          *)
(***************************************************************************)
\* The time before tokenExpiry at which ensureAuthenticated already asks
\* for a new token, in seconds: the code compares Date.now() with
\* tokenExpiry itself.
SafetyMargin == 0

\* The settled call reached DynatraceAPI.ensureAuthenticated: a live query
\* not answered from the cache, the client being a DynatraceAPI without a
\* platform token.
CalledEnsureAuthenticated ==
  /\ LiveQuery
  /\ backend = "api"
  /\ ~platformToken
  /\ ~TaggedWith(req.text, "cache")

\* The token held when the call began was absent or had reached its
\* expiry less the safety margin.
HeldTokenStale ==
  \/ req.held.accessToken = ""
  \/ req.at * 1000 >= req.held.tokenExpiry - SafetyMargin * 1000

\* C11: ensureAuthenticated makes a token exchange exactly when no token is
\* held or the time has reached tokenExpiry less the safety margin; a
\* successful exchange sets tokenExpiry to the time of the exchange plus
\* the returned lifetime; a token it reports valid is the held one and has
\* more than the safety margin left.
C11_RefreshCondition ==
  CalledEnsureAuthenticated =>
    /\ (req.log.auth # "none") <=> HeldTokenStale
    /\ req.log.auth = "ok" =>
         /\ token.accessToken # ""
         /\ \E lifetime \in TokenLifetimes :
              token.tokenExpiry = (req.at + lifetime) * 1000
    /\ req.log.auth = "none" =>
         /\ token = req.held
         /\ token.tokenExpiry - req.at * 1000 > SafetyMargin * 1000

\* C11's cases: a token obtained earlier and still valid is used without
\* an exchange.
C11_Witness ==
  /\ CalledEnsureAuthenticated
  /\ req.at > 0
  /\ req.held.accessToken # ""
  /\ req.log.auth = "none"
  /\ req.log.live1 = "ok"

\* C12: a failed token exchange does not reject the call: the call
\* resolves to the authentication-failure result, makes no live request,
\* and the held token is exactly what it was before.
C12_FailedExchangeKeepsToken ==
  (LiveQuery /\ req.log.auth = "fail") =>
    /\ ~req.threw
    /\ req.text[1] \in {Txt("api: authentication status"), Txt("working: authentication failed")}
    /\ req.log.live1 = "none" /\ req.log.live2 = "none"
    /\ token = req.held

\* C12's case: a token was held and had expired, the exchange for a new
\* one failed, and the expired token is still held.
C12_Witness ==
  /\ CalledEnsureAuthenticated
  /\ req.log.auth = "fail"
  /\ req.held.accessToken # ""
  /\ token = req.held

\* The bearer token occurs in a stored value.
HoldsToken(entry) ==
  \E i \in DOMAIN JSONparse(entry.value).message :
    JSONparse(entry.value).message[i].v = "token"

\* C13: no value in the keyspace contains the access token, and no
\* response does.
C13_TokenNeverPersisted ==
  /\ \A k \in DOMAIN store : ~HoldsToken(store[k])
  /\ \A i \in DOMAIN req.text : req.text[i].v # "token"

\* C13's case: a result fetched with a bearer token is in the keyspace.
C13_Witness ==
  /\ CalledEnsureAuthenticated
  /\ token.accessToken = "token"
  /\ req.log.live1 = "ok" /\ req.log.live2 = "ok"
  /\ req.log.redisSet = "ok"
  /\ queryKeyOf[req.msg] \in DOMAIN store


(***************************************************************************)
(* Claims about sessions.  They read a call that has returned and is not   *)
(* yet handed to its caller, and the keyspace as the call left it.         *)
(***************************************************************************)
\* Call p of the method op has returned.
Done(p, op) == calls[p].op = op /\ calls[p].pc = "returned"

\* The store was reachable to the call: every Redis command it issued
\* succeeded.
AllOk(c) == \A i \in DOMAIN c.log : c.log[i].res = "ok"

\* The session stored under the call's id when the call began, Null when
\* there was none.
BeforeSession(c) ==
  IF SessionKey(c.sessionId) \in DOMAIN c.before
    THEN JSONparse(c.before[SessionKey(c.sessionId)].value)
    ELSE Null

\* C14: with the store reachable, getSession for an id without a session
\* returns a complete new session (messageCount 0, no topic, no queries,
\* no ADT context, no last message, createdAt and updatedAt the time of the
\* call) that is stored under session:<id> when it is returned; for an id
\* with a session it returns that session, creates nothing and leaves the
\* keyspace as it was.
C14_GetOrCreate ==
  \A p \in Procs :
    (Done(p, "getSession") /\ AllOk(calls[p])) =>
      LET c == calls[p] IN
      IF BeforeSession(c) = Null
        THEN /\ c.created = 1
             /\ c.ret.id = c.sessionId
             /\ c.ret.messageCount = 0
             /\ c.ret.context.currentTopic = "null"
             /\ c.ret.context.dynatraceQueries = <<>>
             /\ c.ret.context.adtContext = NoAdtContext
             /\ ~c.ret.lastMessage.defined
             /\ c.ret.createdAt = now /\ c.ret.updatedAt = now
             /\ SessionKey(c.sessionId) \in DOMAIN store
             /\ JSONparse(store[SessionKey(c.sessionId)].value) = c.ret
        ELSE /\ c.created = 0
             /\ c.ret = BeforeSession(c)
             /\ store = c.before

\* C14's case: a session created by an earlier call is returned, with its
\* createdAt, by a later getSession.
C14_Witness ==
  /\ Done(1, "getSession")
  /\ AllOk(calls[1])
  /\ BeforeSession(calls[1]) # Null
  /\ calls[1].ret.createdAt < now
  /\ calls[1].ret.messageCount = 0
  /\ calls[1].created = 0

\* C15: two overlapping getSession calls for an id without a session return
\* sessions with the same createdAt, which is the createdAt of the stored
\* session.
C15_ConcurrentGetOrCreate ==
  (/\ Done(1, "getSession") /\ Done(2, "getSession")
   /\ calls[1].sessionId = calls[2].sessionId
   /\ BeforeSession(calls[1]) = Null /\ BeforeSession(calls[2]) = Null)
  => /\ calls[1].ret.createdAt = calls[2].ret.createdAt
     /\ PersistedSession(calls[1].sessionId) # Null
     /\ PersistedSession(calls[1].sessionId).createdAt = calls[1].ret.createdAt

\* C16: with the store reachable, addMessage returns and stores the session
\* it found (a new one when there was none) with messageCount one higher,
\* createdAt unchanged, updatedAt the time of the write and lastMessage the
\* message of the call; getSession and getSessionStats leave a stored
\* session as it is.
C16_UpdateCountsExchanges ==
  /\ \A p \in Procs :
       (Done(p, "addMessage") /\ AllOk(calls[p])) =>
         LET c == calls[p]
             old == BeforeSession(c)
         IN /\ c.ret.messageCount = (IF old = Null THEN 0 ELSE old.messageCount) + 1
            /\ old # Null => (c.ret.createdAt = old.createdAt /\ c.ret.updatedAt >= old.updatedAt)
            /\ c.ret.updatedAt = now
            /\ c.ret.lastMessage.defined
            /\ c.ret.lastMessage.message = c.message
            /\ PersistedSession(c.sessionId) = c.ret
  /\ \A p \in Procs :
       ((Done(p, "getSession") \/ Done(p, "getSessionStats")) /\ BeforeSession(calls[p]) # Null
          /\ AllOk(calls[p]))
       => store = calls[p].before

\* C16's case: the third addMessage in a row on a session created earlier.
C16_Witness ==
  /\ Done(1, "addMessage")
  /\ AllOk(calls[1])
  /\ BeforeSession(calls[1]) # Null
  /\ BeforeSession(calls[1]).messageCount = 2
  /\ calls[1].ret.messageCount = 3
  /\ calls[1].ret.createdAt < calls[1].ret.updatedAt

\* The list with its oldest elements dropped until at most five are left.
RECURSIVE EvictOldest(_)
EvictOldest(queries) ==
  IF Len(queries) <= 5 THEN queries ELSE EvictOldest(Tail(queries))

\* C17: a stored or returned session never has more than 5 recent queries;
\* with the store reachable, addMessage with a live-query message appends
\* the message and drops the oldest queries beyond 5, keeping the order.
C17_RecentQueriesFifo ==
  /\ \A sessionId \in SessionIds :
       PersistedSession(sessionId) # Null =>
         Len(PersistedSession(sessionId).context.dynatraceQueries) <= 5
  /\ \A p \in Procs :
       (Done(p, "addMessage") /\ AllOk(calls[p]) /\ isDynatraceQuery(calls[p].message)) =>
         LET c == calls[p]
             old == IF BeforeSession(c) = Null THEN <<>>
                    ELSE BeforeSession(c).context.dynatraceQueries
         IN /\ Len(c.ret.context.dynatraceQueries) <= 5
            /\ c.ret.context.dynatraceQueries = EvictOldest(old \o <<c.message>>)
            /\ c.ret.context.currentTopic = "dynatrace"

\* C17's case: the seventh live query on a session holding five queries,
\* not all alike: the oldest leaves, the new one is last.
C17_Witness ==
  /\ Done(1, "addMessage")
  /\ AllOk(calls[1])
  /\ calls[1].ret.messageCount = 7
  /\ BeforeSession(calls[1]) # Null
  /\ Len(BeforeSession(calls[1]).context.dynatraceQueries) = 5
  /\ BeforeSession(calls[1]).context.dynatraceQueries[1] # BeforeSession(calls[1]).context.dynatraceQueries[2]
  /\ calls[1].ret.context.dynatraceQueries =
       Tail(BeforeSession(calls[1]).context.dynatraceQueries) \o <<calls[1].message>>

\* The urgency level a phrase signals: 2 for critical and down, 1 for
\* urgent and issue, 0 otherwise.
PhraseLevel(w) ==
  IF toLowerCase(w) \in {<<"c","r","i","t","i","c","a","l">>, <<"d","o","w","n">>} THEN 2
  ELSE IF toLowerCase(w) \in {<<"u","r","g","e","n","t">>, <<"i","s","s","u","e">>} THEN 1
  ELSE 0

UrgencyRank(urgency) ==
  IF urgency = "critical" THEN 2 ELSE IF urgency = "high" THEN 1 ELSE 0

Reverse(ws) == [i \in 1..Len(ws) |-> ws[Len(ws) + 1 - i]]

\* C18: the urgency extracted from a message is the highest level any of
\* its phrases signals, and is the same for the phrases in reverse order.
C18_UrgencyIsHighestLevel ==
  extracted # Null =>
    \A ws \in UrgencyPhrases :
      JoinWords(ws) = message =>
        /\ \A i \in DOMAIN ws : PhraseLevel(ws[i]) <= UrgencyRank(extracted.urgency)
        /\ UrgencyRank(extracted.urgency) > 0 =>
             \E i \in DOMAIN ws : PhraseLevel(ws[i]) = UrgencyRank(extracted.urgency)
        /\ extractADTContext(JoinWords(Reverse(ws))).urgency = extracted.urgency

\* C18's case: a middle-level keyword followed by a highest-level one.
C18_Witness ==
  /\ extracted # Null
  /\ message = JoinWords(<< <<"i","s","s","u","e">>, <<"C","R","I","T","I","C","A","L">> >>)
  /\ extracted.urgency = "critical"

\* C19: with the store reachable, addMessage with a message that is neither
\* a Dynatrace query nor an ADT query returns and stores the session it
\* found with only messageCount, lastMessage and updatedAt changed.
C19_ContextFrame ==
  \A p \in Procs :
    (/\ Done(p, "addMessage") /\ AllOk(calls[p])
     /\ ~isDynatraceQuery(calls[p].message) /\ ~isADTQuery(calls[p].message)
     /\ BeforeSession(calls[p]) # Null)
    => LET c == calls[p]
           old == BeforeSession(c)
       IN /\ c.ret = [old EXCEPT !.messageCount = c.ret.messageCount,
                                 !.lastMessage = c.ret.lastMessage,
                                 !.updatedAt = c.ret.updatedAt]
          /\ c.ret.context = old.context
          /\ PersistedSession(c.sessionId) = c.ret

\* C19's case: a plain message recorded in a session whose topic and ADT
\* context an earlier message had set.
C19_Witness ==
  /\ Done(1, "addMessage")
  /\ AllOk(calls[1])
  /\ calls[1].message = Hello
  /\ BeforeSession(calls[1]) # Null
  /\ BeforeSession(calls[1]).context.currentTopic = "adt"
  /\ calls[1].ret.context.adtContext.urgency = "critical"
  /\ calls[1].ret.messageCount = 2

\* C20: getSessionStats leaves the keyspace exactly as it was, for an id
\* with a session and for an id without one, and returns the messageCount,
\* the time since createdAt and the currentTopic of the session.
C20_StatsIsPureRead ==
  \A p \in Procs :
    Done(p, "getSessionStats") =>
      /\ store = calls[p].before
      /\ BeforeSession(calls[p]) # Null /\ AllOk(calls[p]) =>
           /\ calls[p].ret.messageCount = BeforeSession(calls[p]).messageCount
           /\ calls[p].ret.duration = (now - BeforeSession(calls[p]).createdAt) * 1000
           /\ calls[p].ret.currentTopic = BeforeSession(calls[p]).context.currentTopic


(***************************************************************************)
(* Claims about the cache store.  They read rcall.last, the call of a      *)
(* RedisMiddleware method that came last.                                  *)
(***************************************************************************)
\* The parameter objects with the pairs of params in every order.
Reordered(params) ==
  { [kind |-> "object", pairs |-> [i \in DOMAIN params.pairs |-> params.pairs[f[i]]]] :
      f \in { g \in [DOMAIN params.pairs -> DOMAIN params.pairs] :
                 \A i, j \in DOMAIN params.pairs : i # j => g[i] # g[j] } }

\* generateCacheKey gives the same key for the pairs in any order, and the
\* category, a colon and the scalar for a scalar.
CacheKeyDeterministic ==
  rcall.last.op = "generateCacheKey" =>
    IF rcall.last.params.kind = "object"
      THEN \A q \in Reordered(rcall.last.params) :
             generateCacheKey(rcall.last.type, q) = rcall.last.value
      ELSE rcall.last.value = rcall.last.type \o <<":">> \o rcall.last.params.value

\* The same of generateKey.
WrapperKeyDeterministic ==
  rcall.last.op = "generateKey" =>
    IF rcall.last.params.kind = "object"
      THEN \A q \in Reordered(rcall.last.params) :
             generateKey(rcall.last.type, q) = rcall.last.value
      ELSE rcall.last.value = <<"m","c","p",":">> \o rcall.last.type \o <<":">> \o rcall.last.params.value

\* C21: every key derivation of the repository gives the same key for two
\* parameter objects with the same pairs built in different orders, and
\* appends a scalar parameter verbatim after the category.
C21_KeyDeterminism ==
  /\ CacheKeyDeterministic
  /\ WrapperKeyDeterministic

\* The entry the call found under its key holds a string that is not JSON.
FoundUndecodable(c) ==
  /\ c.key \in DOMAIN c.before
  /\ c.at < c.before[c.key].expiresAt
  /\ c.before[c.key].value = NotJson

\* C22: get, set, del and delPattern never throw; get gives null when the
\* flag is off, when the GET fails and when the payload is not JSON; set,
\* del and delPattern give false when the flag is off and when a command
\* fails.
C22_NoCacheOperationRaises ==
  LET c == rcall.last IN
  c.op \in {"get", "set", "del", "delPattern"} =>
    /\ ~c.threw
    /\ (c.op = "get" /\ (~c.flag \/ c.cmd = "fail" \/ FoundUndecodable(c))) => c.value = Null
    /\ (c.op # "get" /\ (~c.flag \/ c.cmd = "fail" \/ c.cmd2 = "fail")) => c.value = Bool(FALSE)

\* C22's case: a get, connected and answered, of a payload that is not
\* JSON.
C22_Witness ==
  /\ rcall.last.op = "get"
  /\ rcall.last.flag
  /\ rcall.last.cmd = "ok"
  /\ FoundUndecodable(rcall.last)
  /\ rcall.last.value = Null
  /\ ~rcall.last.threw

\* An answered get of a key last written by set at time w.at with the ttl
\* argument w.ttl gives the written value before w.at + w.ttl and null from
\* then on.
TtlHonored(c) ==
  LET w == c.known[c.key] IN
  IF c.at < w.at + w.ttl THEN c.value = w.value ELSE c.value = Null

\* The same for the ttl arguments above 0.
PositiveTtlHonored ==
  LET c == rcall.last IN
  (c.op = "get" /\ c.cmd = "ok" /\ c.key \in DOMAIN c.known /\ c.known[c.key].ttl > 0)
    => TtlHonored(c)

\* C23: a value written with ttl t is what get gives at every time before
\* t has elapsed, unless overwritten or removed, and get gives null at
\* every time from then on, for every ttl passed to set.
C23_TtlHonored ==
  LET c == rcall.last IN
  (c.op = "get" /\ c.cmd = "ok" /\ c.key \in DOMAIN c.known) => TtlHonored(c)

\* C24: with the flag off, get, set, del, delPattern and ping give null or
\* false without issuing a command and without throwing; the flag is off
\* before any call, after a failed connect, after an error event and after
\* disconnect, and only a connect event turns it on.
C24_ConnectivityGating ==
  LET c == rcall.last IN
  /\ (c.op \in {"get", "set", "del", "delPattern", "ping"} /\ ~c.flag) =>
       /\ c.cmd = "offline" /\ c.cmd2 = "none"
       /\ ~c.threw
       /\ c.value = IF c.op = "get" THEN Null ELSE Bool(FALSE)
  /\ c.op = "none" => ~connected
  /\ (c.op = "connect" /\ c.cmd = "fail") => ~connected
  /\ c.op \in {"error event", "disconnect"} => ~connected
  /\ connected # c.flag => c.op \in {"connect", "connect event", "error event", "disconnect"}
  /\ (connected /\ ~c.flag) => (c.op = "connect event" \/ (c.op = "connect" /\ c.cmd = "ok"))

\* C24's case: delPattern, after the connection was lost, of a pattern
\* that matches a stored key: nothing is deleted.
C24_Witness ==
  /\ rcall.last.op = "delPattern"
  /\ ~rcall.last.flag
  /\ client = "open"
  /\ \E k \in DOMAIN rcall.last.before : GlobMatch(rcall.last.key, k)
  /\ rcall.last.after = rcall.last.before
  /\ rcall.last.value = Bool(FALSE)

\* The keys of the keyspace the call found that match its pattern.
Matched(c) == {k \in DOMAIN c.before : c.at < c.before[k].expiresAt /\ GlobMatch(c.key, k)}

\* An answered delPattern deletes the entries whose keys match and no
\* other.
DeletesExactlyMatching ==
  LET c == rcall.last IN
  (c.op = "delPattern" /\ c.cmd = "ok" /\ c.cmd2 # "fail") =>
    c.after = [k \in DOMAIN c.before \ Matched(c) |-> c.before[k]]

\* C25: an answered delPattern deletes exactly the entries whose keys
\* match the pattern and returns how many it deleted, 0 when none match;
\* del returns a boolean.
C25_BulkInvalidation ==
  LET c == rcall.last IN
  /\ DeletesExactlyMatching
  /\ (c.op = "delPattern" /\ c.cmd = "ok" /\ c.cmd2 # "fail") =>
       (c.value.t = "number" /\ c.value.v = Cardinality(Matched(c)))
  /\ c.op = "del" => c.value.t = "boolean"


(***************************************************************************)
(* Claims about POST /chat.                                                *)
(***************************************************************************)
\* The stored session is the one addMessage returned, it holds the message
\* and the truncated response of the request, and its messageCount is one
\* above the count the request found.
ExchangeRecorded ==
  LET c == calls[1] IN
  /\ route = "handled"
  /\ c.op = "addMessage" /\ c.pc = "returned"
  /\ PersistedSession(RouteSession) = c.ret
  /\ c.ret.lastMessage.message = req.msg
  /\ c.ret.lastMessage.response = substring0(req.text, ResponseChars) \o Ellipsis
  /\ c.ret.messageCount = (IF BeforeSession(c) = Null THEN 0 ELSE BeforeSession(c).messageCount) + 1

Made(call) == IF req.log[call] # "none" THEN 1 ELSE 0

\* The requests of the settled call to the model backend.
ModelCalls == Made("enrich") + Made("chat")

\* The settled call made no token exchange and no live API request.
NoLiveCall == req.log.auth = "none" /\ req.log.live1 = "none" /\ req.log.live2 = "none"

InitialCount(c) == IF BeforeSession(c) = Null THEN 0 ELSE BeforeSession(c).messageCount

Min(a, b) == IF a <= b THEN a ELSE b

\* C28: when two addMessage calls on one session have both returned,
\* however their steps interleaved, the stored session is the whole
\* session one of them wrote and returned (every field of a session, its
\* lastMessage the message of that call), its messageCount is the count
\* before the calls plus 1 or plus 2, and it keeps at most 5 queries.
C28_LostUpdateIsWorstRace ==
  (/\ Done(1, "addMessage") /\ Done(2, "addMessage")
   /\ calls[1].sessionId = calls[2].sessionId)
  => LET persisted == PersistedSession(calls[1].sessionId)
         initial == Min(InitialCount(calls[1]), InitialCount(calls[2]))
     IN /\ persisted # Null
        /\ \E p \in Procs :
             /\ persisted = calls[p].ret
             /\ persisted = [updatedSession(calls[p].session, calls[p].updates)
                               EXCEPT !.updatedAt = persisted.updatedAt]
             /\ persisted.lastMessage.defined
             /\ persisted.lastMessage.message = calls[p].message
             /\ persisted.messageCount = calls[p].first.messageCount + 1
        /\ DOMAIN persisted = DOMAIN createSession(calls[1].sessionId)
        /\ persisted.id = calls[1].sessionId
        /\ persisted.messageCount \in {initial + 1, initial + 2}
        /\ Len(persisted.context.dynatraceQueries) <= 5

\* C28's case: a lost update on a session with five queries: two calls
\* with different messages began on the count of five, both returned a
\* count of six, and the stored session is the one of the live query.
C28_Witness ==
  /\ Done(1, "addMessage") /\ Done(2, "addMessage")
  /\ InitialCount(calls[1]) = 5 /\ InitialCount(calls[2]) = 5
  /\ calls[1].message = Hello /\ calls[2].message = ShowProblems
  /\ calls[1].ret.messageCount = 6 /\ calls[2].ret.messageCount = 6
  /\ PersistedSession(calls[2].sessionId) = calls[2].ret
  /\ PersistedSession(calls[2].sessionId) # calls[1].ret
  /\ Len(PersistedSession(calls[2].sessionId).context.dynatraceQueries) = 5


(***************************************************************************)
(* Claims about overlapping token exchanges.                               *)
(***************************************************************************)
\* The call made an exchange that was answered.
ExchangeWasAnswered(p) == calls[p].response # Null

\* The held token is the one the answer to call p brought: its
\* access_token, and the time of that answer plus its expires_in.
FromAnswerOf(p) ==
  /\ ExchangeWasAnswered(p)
  /\ token.accessToken = calls[p].response.access_token
  /\ token.tokenExpiry = (calls[p].at + calls[p].response.expires_in) * 1000

\* The two calls overlapped: one began while the exchange of the other
\* was in flight.
Overlapped == 1 \in calls[2].inflight \/ 2 \in calls[1].inflight

\* C29: a call of ensureAuthenticated sends at most one POST, and none
\* when it began with a valid token; the held token is at every moment
\* the one the calls began with or both fields of one answer; and when
\* two overlapping calls have returned and an exchange was answered, the
\* held token is that of an answer and has not expired at the time the
\* last call returned.
C29_ConcurrentRefresh ==
  /\ \A p \in Procs :
       /\ Len(calls[p].log) <= 1
       /\ (calls[p].op # "idle" /\ calls[p].log = <<>>) =>
            (calls[p].held.accessToken # "" /\ calls[p].at * 1000 < calls[p].held.tokenExpiry
             /\ calls[p].ret = TRUE)
  /\ \/ token = NoToken
     \/ token.accessToken = "stale"
     \/ \E p \in Procs : FromAnswerOf(p)
  /\ (/\ \A p \in Procs : Done(p, "ensureAuthenticated")
      /\ Overlapped
      /\ \E p \in Procs : ExchangeWasAnswered(p))
     => /\ \E p \in Procs : FromAnswerOf(p)
        /\ \A p \in Procs : calls[p].at * 1000 < token.tokenExpiry

\* C29's case: two overlapping calls both exchanged, the answers brought
\* different lifetimes, and the token held is the shorter-lived one of the
\* call answered last.
C29_Witness ==
  /\ Done(1, "ensureAuthenticated") /\ Done(2, "ensureAuthenticated")
  /\ Overlapped
  /\ ExchangeWasAnswered(1) /\ ExchangeWasAnswered(2)
  /\ calls[1].response.expires_in = TickStep
  /\ calls[2].response.expires_in = 2 * TickStep
  /\ FromAnswerOf(1)
  /\ calls[1].held.accessToken = "stale"


(***************************************************************************)
(* Claims about the topic of an exchange.                                  *)
(***************************************************************************)
\* The context of the session the call found stored when it began, that
\* of a new session when there was none.
BeforeContext(c) ==
  IF BeforeSession(c) = Null THEN createSession(c.sessionId).context
  ELSE BeforeSession(c).context

\* C30: with the store reachable, addMessage of a message holding both a
\* Dynatrace keyword and an ADT keyword returns and stores a session whose
\* currentTopic is dynatrace, whose queries are the former ones with the
\* message appended (the oldest dropped beyond five) and whose adtContext
\* is the former one; of a message holding an ADT keyword only, a session
\* whose currentTopic is adt, whose adtContext is extractADTContext of the
\* message and whose queries are the former ones.
C30_TopicPrecedence ==
  \A p \in Procs :
    (Done(p, "addMessage") /\ AllOk(calls[p]) /\ isADTQuery(calls[p].message)) =>
      LET c == calls[p]
          old == BeforeContext(c)
          new == c.ret.context
      IN /\ PersistedSession(c.sessionId) = c.ret
         /\ IF isDynatraceQuery(c.message)
              THEN /\ new.currentTopic = "dynatrace"
                   /\ new.dynatraceQueries = EvictOldest(old.dynatraceQueries \o <<c.message>>)
                   /\ new.adtContext = old.adtContext
              ELSE /\ new.currentTopic = "adt"
                   /\ new.adtContext = extractADTContext(c.message)
                   /\ new.dynatraceQueries = old.dynatraceQueries

\* C30's case: a message with keywords of both sets recorded in a session
\* whose topic was adt and whose adtContext was critical.
C30_Witness ==
  /\ Done(1, "addMessage")
  /\ AllOk(calls[1])
  /\ calls[1].message = OmsProblems
  /\ isDynatraceQuery(OmsProblems) /\ isADTQuery(OmsProblems)
  /\ BeforeSession(calls[1]) # Null
  /\ BeforeSession(calls[1]).context.currentTopic = "adt"
  /\ BeforeSession(calls[1]).context.adtContext.urgency = "critical"
  /\ calls[1].ret.context.currentTopic = "dynatrace"
  /\ calls[1].ret.context.adtContext.urgency = "critical"
  /\ calls[1].ret.context.dynatraceQueries = <<OmsProblems>>

\* An ADT context is replaced, not merged: the message naming mulesoft
\* recorded after the one naming oms.
AdtContextReplaced ==
  /\ Done(1, "addMessage")
  /\ AllOk(calls[1])
  /\ calls[1].message = MulesoftIssue
  /\ BeforeSession(calls[1]) # Null
  /\ BeforeSession(calls[1]).context.adtContext.systems = <<"oms">>
  /\ calls[1].ret.context.adtContext = [systems |-> <<"mulesoft">>, problemType |-> "null", urgency |-> "high"]


(***************************************************************************)
(* Claims about the stored response.                                       *)
(***************************************************************************)
\* s is the beginning of t.
IsPrefix(s, t) == Len(s) <= Len(t) /\ SubSeq(t, 1, Len(s)) = s

\* What addMessage stores of a response: its first 200 characters, then
\* three dots.
StoredResponseIsTruncationAndDots ==
  \A p \in Procs :
    (Done(p, "addMessage") /\ AllOk(calls[p])) =>
      /\ calls[p].ret.lastMessage.response = substring0(calls[p].response, ResponseChars) \o Ellipsis
      /\ PersistedSession(calls[p].sessionId).lastMessage = calls[p].ret.lastMessage

\* C31: the response addMessage stores in lastMessage is a prefix of the
\* response of at most 200 characters, whatever the length of the
\* response.
C31_StoredResponseIsPrefix ==
  \A p \in Procs :
    (Done(p, "addMessage") /\ AllOk(calls[p])) =>
      /\ Len(calls[p].ret.lastMessage.response) <= ResponseChars
      /\ IsPrefix(calls[p].ret.lastMessage.response, calls[p].response)


(***************************************************************************)
(* Claims about what the query cache holds.                                *)
(***************************************************************************)
\* The result types with which a live backend reports a failure.
FailureTypes == {"auth_error", "problems_error", "bridge_error"}

\* C32: no entry of the keyspace holds a live result that reports a
\* failure (auth_error, problems_error, bridge_error), and no live query
\* is answered from the cache with such a result.
C32_OnlySuccessfulResultsCached ==
  /\ \A key \in DOMAIN store :
       IsJson(store[key].value) => JSONparse(store[key].value).type \notin FailureTypes
  /\ (LiveQuery /\ req.entry # NoEntry /\ req.log.redisGet = "ok" /\ IsJson(req.entry.value))
     => JSONparse(req.entry.value).type \notin FailureTypes


(***************************************************************************)
(* Claims about the stored messageCount under overlapping calls.           *)
(***************************************************************************)
\* No step lowers the messageCount of a session that is stored before and
\* after it.
CountKept(sessionId) ==
  (PersistedSession(sessionId) # Null /\ PersistedSession(sessionId)' # Null)
  => PersistedSession(sessionId)'.messageCount >= PersistedSession(sessionId).messageCount

\* C33: while a session is stored, its stored messageCount never decreases
\* from one state of the keyspace to the next, however the steps of
\* overlapping addMessage, getSession and getSessionStats calls on it
\* interleave.
C33_MessageCountMonotone == [][\A sessionId \in SessionIds : CountKept(sessionId)]_vars


(***************************************************************************)
(* Claims about the credential of a live request.                          *)
(***************************************************************************)
\* The settled call sent a request to the live API.
LiveRequestSent == req.log.live1 # "none" \/ req.log.live2 # "none"

\* The texts with which the API clients report a failed exchange.
AuthFailureTexts ==
  { Txt("api: authentication status"), Txt("working: authentication failed") }

\* C34: with an API client that authenticates, a call sends a request to
\* the live API only when its credential check passed: the exchange, if
\* one was made, succeeded, and the token the client holds, which the
\* request carries, is set and unexpired at the time of the call, the
\* token held before when no exchange was made.  When the exchange
\* failed, no request is sent to the live API, the result is the
\* authentication failure and the held token is as before.
C34_NoLiveCallWithoutCredential ==
  (LiveQuery /\ backend # "bridge") =>
    /\ LiveRequestSent =>
         /\ req.log.auth # "fail"
         /\ token.accessToken # ""
         /\ req.at * 1000 < token.tokenExpiry
         /\ req.log.auth = "none" =>
              (token = req.held /\ req.held.accessToken # ""
               /\ req.at * 1000 < req.held.tokenExpiry)
    /\ req.log.auth = "fail" =>
         /\ ~LiveRequestSent
         /\ ~req.threw
         /\ Len(req.text) = 2
         /\ req.text[1] \in AuthFailureTexts
         /\ token = req.held
    /\ (backend = "working" /\ ~TaggedWith(req.text, "cache")) => req.log.auth # "none"

\* C34's case: the held token had expired when the call began, the
\* exchange succeeded and the live requests were sent with the new token.
C34_Witness ==
  /\ LiveQuery
  /\ backend = "api"
  /\ req.held.accessToken # ""
  /\ req.at * 1000 >= req.held.tokenExpiry
  /\ req.log.auth = "ok"
  /\ req.log.live1 = "ok" /\ req.log.live2 = "ok"
  /\ token # req.held
  /\ req.at * 1000 < token.tokenExpiry


(***************************************************************************)
(* Claims about whose answer a cache hit returns.                          *)
(***************************************************************************)
\* The settled call was answered from the cache.
AnsweredFromCache == Settled /\ TaggedWith(req.text, "cache")

\* The message for which the entry under the call's key was written.
WrittenFor == rcall.writes[queryKeyOf[req.msg]]

\* A message of at most 100 characters answered from the cache gets the
\* entry written for that very message.
ShortQueryHitsItsOwnEntry ==
  (AnsweredFromCache /\ Len(req.msg) <= QueryKeyChars)
  => (queryKeyOf[req.msg] \in DOMAIN rcall.writes /\ WrittenFor = req.msg)

\* C35: a call answered from the cache gets an entry that an earlier live
\* call wrote for the identical message text.
C35_CacheHitAnswersItsMessage ==
  AnsweredFromCache
  => (queryKeyOf[req.msg] \in DOMAIN rcall.writes /\ WrittenFor = req.msg)


(***************************************************************************)
(* Claims relating the classifier and the session.                         *)
(***************************************************************************)
\* C36: a classified message is a dynatrace_query for classifyRequest
\* exactly when isDynatraceQuery accepts it, that is when addMessage sets
\* the topic dynatrace and appends it to the queries.
C36_ClassifierAndSessionAgree ==
  requestType # "none" => (requestType = "dynatrace_query" <=> isDynatraceQuery(message))

\* Every message isDynatraceQuery accepts is a dynatrace_query for the
\* classifier.
SessionLiveQueryIsClassifiedLive ==
  (requestType # "none" /\ isDynatraceQuery(message)) => requestType = "dynatrace_query"


(***************************************************************************)
(* Claims about the keys of different inputs.                              *)
(***************************************************************************)
\* The same scalar, or objects with the same pairs.
SameParams(p, q) ==
  /\ p.kind = q.kind
  /\ IF p.kind = "scalar" THEN p.value = q.value
     ELSE {p.pairs[i] : i \in DOMAIN p.pairs} = {q.pairs[i] : i \in DOMAIN q.pairs}

\* Every input of a set of parameters that gives the key of the last
\* generateCacheKey call is the input of that call.
OnlyKeyOf(paramSet) ==
  \A type \in Categories : \A params \in paramSet :
    generateCacheKey(type, params) = rcall.last.value
    => (type = rcall.last.type /\ SameParams(params, rcall.last.params))

\* Among the parameters without a colon the keys of generateCacheKey are
\* those of one input only.
KeyInjectiveWithoutColon ==
  (rcall.last.op = "generateCacheKey" /\ rcall.last.params \notin ColonParams)
  => OnlyKeyOf(KeyParams \ ColonParams)

\* The keys of the repository's own calls: the query keys of two messages
\* are equal only if the messages agree on their first 100 characters, and
\* no query key is a session key.
CallSiteKeysDistinct ==
  /\ \A q1, q2 \in HandledStrings :
       queryKeyOf[q1] = queryKeyOf[q2]
       => substring0(q1, QueryKeyChars) = substring0(q2, QueryKeyChars)
  /\ \A q \in HandledStrings : \A sessionId \in SessionIds \cup HandledStrings :
       queryKeyOf[q] # SessionKey(sessionId)

\* C37: two generateCacheKey calls give the same key only if they were
\* given the same category and the same parameters (the same scalar, or
\* objects with the same pairs).
C37_KeyInjective ==
  rcall.last.op = "generateCacheKey" => OnlyKeyOf(KeyParams)


(***************************************************************************)
(* Claims about MCPCacheWrapper.withCache.                                 *)
(***************************************************************************)
\* The last call was withCache and, with the cache in use and the read
\* answered without a hit, something threw inside its try block: the
\* wrapped function or the SETEX.
ThrewInsideTry ==
  /\ rcall.last.op = "withCache"
  /\ rcall.last.enabled /\ rcall.last.outcomes.get = "ok" /\ ~rcall.last.hit
  /\ (rcall.last.outcomes.fn1 = "fail" \/ rcall.last.outcomes.setex = "fail")

\* withCache invokes the wrapped function never on a hit, twice when the
\* wrapped function or the SETEX threw inside the try block, once
\* otherwise.
WrapperInvocations ==
  rcall.last.op = "withCache" =>
    rcall.last.invocations =
      (IF rcall.last.hit THEN 0 ELSE IF ThrewInsideTry THEN 2 ELSE 1)

\* C38: withCache invokes the wrapped function never on a hit and once
\* otherwise, and when that invocation fails the call fails.
C38_WrappedFunctionInvokedOnce ==
  rcall.last.op = "withCache" =>
    /\ rcall.last.invocations = (IF rcall.last.hit THEN 0 ELSE 1)
    /\ (~rcall.last.hit /\ rcall.last.outcomes.fn1 = "fail") => rcall.last.threw

====
